---------------------------- MODULE Spec2Model ----------------------------
(***************************************************************************)
(* A model of the Jaeger-trace to UML/XMI generator                        *)
(* (python_version/jaeger_uml_generator).                                  *)
(*                                                                         *)
(* Representation.                                                         *)
(*  - A Python str that the code inspects, sorts or concatenates (service  *)
(*    names, operation names, tag values, element names) is a sequence of  *)
(*    one-character strings: "svcA" is <<"s","v","c","A">>.                *)
(*  - A Python str that the code only compares and tests for truth (span   *)
(*    ids, process ids, reference kinds, tag keys, format selectors) is a  *)
(*    TLA+ string; "" is the empty str and None the Python None.           *)
(*  - A Python dict is a sequence of [k, v] records in insertion order     *)
(*    (dicts iterate in insertion order); a Python set is a set.           *)
(*  - uuid.uuid4() is a fresh number taken from the counter uuids.         *)
(***************************************************************************)
EXTENDS Naturals, Integers, Sequences, FiniteSets

VARIABLES
    cur_trace,  \* _analyze: the trace under analysis (the loop variable over self.traces)
    agg,        \* TraceAggregator's aggregated fields
    ti,         \* _analyze: how many traces of self.traces have been taken
    si,         \* _analyze_trace: index of the next span of cur_trace to analyse
    pc,         \* position of the aggregator: "analyze" | "done"
    objects,    \* the serializers and generators constructed so far
    created_realizations,   \* the class attribute ComponentDiagramGenerator._created_realizations
    uuids,      \* how many identifiers uuid.uuid4() has given out
    last,       \* the last constructor or builder call: its arguments and what it returned
    calls,      \* how many builder calls have been made
    namespace_map   \* ElementTree's registry of prefixes: the entries the program registers

aggVars == <<cur_trace, agg, ti, si, pc>>
genVars == <<objects, created_realizations, uuids, last, calls, namespace_map>>
vars == <<cur_trace, agg, ti, si, pc, objects, created_realizations, uuids, last, calls,
          namespace_map>>

---------------------------------------------------------------------------
(* Bounds of the model *)

MaxTraces == 2
MaxSpans == 2
MaxRefs == 2

---------------------------------------------------------------------------
(* Python values *)

None == "<None>"

\* Truth value of an Optional[str] held as a TLA+ string: None and '' are false.
Truthy(x) == x # None /\ x # ""

RECURSIVE FoldLeft(_, _, _)
\* functools.reduce / a for loop over a list: Op(acc, element), left to right.  The
\* loop is strict: <<acc>> has acc computed before the next element is met.
FoldLeft(Op(_, _), acc, s) ==
    IF s = <<>> \/ <<acc>> = <<>> THEN acc ELSE FoldLeft(Op, Op(acc, Head(s)), Tail(s))

Range(s) == {s[i] : i \in 1..Len(s)}

\* A local variable: In is what follows the assignment of value to it.
Let(value, In(_)) == In(value)

---------------------------------------------------------------------------
(* Python str operations on sequences of characters *)

\* The characters of the model in code-point order.
Chars ==
    <<" ", "-", ".", "/",
      "0", "1", "2", "3", "4", "5", "6", "7", "8", "9",
      "A", "B", "C", "D", "E", "F", "G", "H", "I", "J", "K", "L", "M",
      "N", "O", "P", "Q", "R", "S", "T", "U", "V", "W", "X", "Y", "Z",
      "_",
      "a", "b", "c", "d", "e", "f", "g", "h", "i", "j", "k", "l", "m",
      "n", "o", "p", "q", "r", "s", "t", "u", "v", "w", "x", "y", "z">>
CharSet == Range(Chars)
OrdOf == [c \in CharSet |-> CHOOSE i \in 1..Len(Chars) : Chars[i] = c]
Ord(c) == OrdOf[c]

IsDigit(c) == Ord(c) \in 5..14
IsUpper(c) == Ord(c) \in 15..40
IsLower(c) == Ord(c) \in 42..67
IsSpace(c) == c = " "
\* \w of the re module: a letter, a digit or the underscore.
IsWord(c) == IsDigit(c) \/ IsUpper(c) \/ IsLower(c) \/ c = "_"
\* [a-f0-9] and [a-z0-9]
IsLowerHex(c) == IsDigit(c) \/ Ord(c) \in 42..47
IsLowerAlnum(c) == IsDigit(c) \/ IsLower(c)

LowerChar(c) == IF IsUpper(c) THEN Chars[Ord(c) + 27] ELSE c
UpperChar(c) == IF IsLower(c) THEN Chars[Ord(c) - 27] ELSE c
\* str.lower, str.capitalize
Lower(s) == [i \in 1..Len(s) |-> LowerChar(s[i])]
Capitalize(s) == [i \in 1..Len(s) |-> IF i = 1 THEN UpperChar(s[i]) ELSE LowerChar(s[i])]

\* s[i:] and s[:i] with the positions counted from 1: Drop removes the first n characters.
Drop(s, n) == SubSeq(s, n + 1, Len(s))
Take(s, n) == SubSeq(s, 1, n)
StartsWith(s, p) == Len(p) <= Len(s) /\ Take(s, Len(p)) = p
EndsWith(s, p) == Len(p) <= Len(s) /\ Drop(s, Len(s) - Len(p)) = p
\* p in s
Contains(s, p) == \E i \in 0..(Len(s) - Len(p)) : SubSeq(s, i + 1, i + Len(p)) = p

RECURSIVE Replace(_, _, _)
\* str.replace(old, new), old not empty: the occurrences from the left, not overlapping.
Replace(s, old, new) ==
    IF s = <<>> THEN <<>>
    ELSE IF StartsWith(s, old) THEN new \o Replace(Drop(s, Len(old)), old, new)
    ELSE <<Head(s)>> \o Replace(Tail(s), old, new)

RECURSIVE LStrip(_, _)
LStrip(s, c) == IF s # <<>> /\ Head(s) = c THEN LStrip(Tail(s), c) ELSE s
RECURSIVE RStrip(_, _)
RStrip(s, c) == IF s # <<>> /\ s[Len(s)] = c THEN RStrip(Take(s, Len(s) - 1), c) ELSE s
\* str.strip(c) for one character c
Strip(s, c) == RStrip(LStrip(s, c), c)

RECURSIVE Split(_)
\* str.split(): the words between runs of whitespace.
Split(s) ==
    Let(LStrip(s, " "), LAMBDA t :
        IF t = <<>> THEN <<>>
        ELSE Let(IF \E i \in 1..Len(t) : IsSpace(t[i])
                 THEN (CHOOSE i \in 1..Len(t) :
                           IsSpace(t[i]) /\ \A j \in 1..(i - 1) : ~IsSpace(t[j])) - 1
                 ELSE Len(t),
                 LAMBDA n : <<Take(t, n)>> \o Split(Drop(t, n))))

RECURSIVE Join(_)
\* ''.join(words)
Join(ws) == IF ws = <<>> THEN <<>> ELSE Head(ws) \o Join(Tail(ws))

\* s.rsplit(c, 1)[-1]: what follows the last c (all of s when c is not in s).
AfterLast(s, c) ==
    IF \E i \in 1..Len(s) : s[i] = c
    THEN Drop(s, CHOOSE i \in 1..Len(s) : s[i] = c /\ \A j \in (i + 1)..Len(s) : s[j] # c)
    ELSE s

RECURSIVE LexLess(_, _)
\* a < b for two str: by code point, a proper prefix first.
LexLess(a, b) ==
    IF b = <<>> THEN FALSE
    ELSE IF a = <<>> THEN TRUE
    ELSE IF Head(a) = Head(b) THEN LexLess(Tail(a), Tail(b))
    ELSE Ord(Head(a)) < Ord(Head(b))

RECURSIVE NatToStr(_)
\* str(n) for a natural number
NatToStr(n) ==
    IF n < 10 THEN <<Chars[5 + n]>> ELSE NatToStr(n \div 10) \o <<Chars[5 + (n % 10)]>>

\* The str literals of the code that take part in names, by an identifier.
Lit ==
    [frontend |-> <<"f", "r", "o", "n", "t", "e", "n", "d">>,
     ui |-> <<"u", "i">>,
     web |-> <<"w", "e", "b">>,
     client |-> <<"c", "l", "i", "e", "n", "t">>,
     gateway |-> <<"g", "a", "t", "e", "w", "a", "y">>,
     database |-> <<"d", "a", "t", "a", "b", "a", "s", "e">>,
     db |-> <<"d", "b">>,
     mongo |-> <<"m", "o", "n", "g", "o">>,
     postgres |-> <<"p", "o", "s", "t", "g", "r", "e", "s">>,
     mysql |-> <<"m", "y", "s", "q", "l">>,
     redis |-> <<"r", "e", "d", "i", "s">>,
     cache |-> <<"c", "a", "c", "h", "e">>,
     memcache |-> <<"m", "e", "m", "c", "a", "c", "h", "e">>,
     ingress |-> <<"i", "n", "g", "r", "e", "s", "s">>,
     grpc |-> <<"g", "r", "p", "c">>,
     service |-> <<"s", "e", "r", "v", "i", "c", "e">>,
     api_gateway |-> <<"a", "p", "i", "-", "g", "a", "t", "e", "w", "a", "y">>,
     Service |-> <<"S", "e", "r", "v", "i", "c", "e">>,
     GET |-> <<"G", "E", "T">>,
     POST |-> <<"P", "O", "S", "T">>,
     PUT |-> <<"P", "U", "T">>,
     DELETE |-> <<"D", "E", "L", "E", "T", "E">>,
     PATCH |-> <<"P", "A", "T", "C", "H">>,
     HEAD |-> <<"H", "E", "A", "D">>,
     OPTIONS |-> <<"O", "P", "T", "I", "O", "N", "S">>,
     unknown |-> <<"u", "n", "k", "n", "o", "w", "n">>,
     uses |-> <<"_", "u", "s", "e", "s", "_">>,
     provides_I |-> <<"_", "p", "r", "o", "v", "i", "d", "e", "s", "_", "I">>,
     I |-> <<"I">>,
     to |-> <<"_", "t", "o", "_">>,
     artifact |-> <<"_", "a", "r", "t", "i", "f", "a", "c", "t">>,
     manifest |-> <<"m", "a", "n", "i", "f", "e", "s", "t", "_">>,
     deploy |-> <<"d", "e", "p", "l", "o", "y", "_">>,
     deploys |-> <<"_", "d", "e", "p", "l", "o", "y", "s", "_">>,
     Interaction |-> <<"_", "I", "n", "t", "e", "r", "a", "c", "t", "i", "o", "n">>,
     Collaboration |-> <<"_", "C", "o", "l", "l", "a", "b", "o", "r", "a", "t", "i", "o", "n">>,
     Component |-> <<"_", "C", "o", "m", "p", "o", "n", "e", "n", "t">>,
     Deployment |-> <<"_", "D", "e", "p", "l", "o", "y", "m", "e", "n", "t">>,
     Sequence |-> <<"_", "S", "e", "q", "u", "e", "n", "c", "e">>,
     Trace |-> <<"T", "r", "a", "c", "e", "_">>,
     msg |-> <<"m", "s", "g">>,
     send |-> <<"_", "s", "e", "n", "d">>,
     recv |-> <<"_", "r", "e", "c", "v">>,
     receive |-> <<"_", "r", "e", "c", "e", "i", "v", "e">>,
     Node |-> <<"N", "o", "d", "e", "-">>,
     NodeUnknown |-> <<"N", "o", "d", "e", "-", "U", "n", "k", "n", "o", "w", "n">>,
     Container |-> <<"C", "o", "n", "t", "a", "i", "n", "e", "r", "-">>,
     Host |-> <<"H", "o", "s", "t", "-">>,
     ComponentDiagram |-> <<"C", "o", "m", "p", "o", "n", "e", "n", "t", "D", "i", "a", "g", "r", "a", "m">>,
     DeploymentDiagram |-> <<"D", "e", "p", "l", "o", "y", "m", "e", "n", "t", "D", "i", "a", "g", "r", "a", "m">>,
     SequenceDiagram |-> <<"S", "e", "q", "u", "e", "n", "c", "e", "D", "i", "a", "g", "r", "a", "m">>,
     UnifiedModel |-> <<"U", "n", "i", "f", "i", "e", "d", "M", "o", "d", "e", "l">>,
     Presentation |-> <<"P", "r", "e", "s", "e", "n", "t", "a", "t", "i", "o", "n">>,
     Services |-> <<"S", "e", "r", "v", "i", "c", "e", "s">>,
     DataLayer |-> <<"D", "a", "t", "a", "L", "a", "y", "e", "r">>,
     Interfaces |-> <<"I", "n", "t", "e", "r", "f", "a", "c", "e", "s">>,
     Relationships |-> <<"R", "e", "l", "a", "t", "i", "o", "n", "s", "h", "i", "p", "s">>,
     Components |-> <<"C", "o", "m", "p", "o", "n", "e", "n", "t", "s">>,
     Dependencies |-> <<"D", "e", "p", "e", "n", "d", "e", "n", "c", "i", "e", "s">>,
     DeploymentPkg |-> <<"D", "e", "p", "l", "o", "y", "m", "e", "n", "t">>,
     UseCases |-> <<"U", "s", "e", "C", "a", "s", "e", "s">>,
     more |-> <<"m", "o", "r", "e">>]

---------------------------------------------------------------------------
(* utils/name_utils.py and the sorting of names *)

\* None where the code expects a str (a JSON null operationName).
NoneName == <<"<None>">>
\* Truth value of an Optional[str] held as a sequence of characters.
NameTruthy(s) == s # NoneName /\ s # <<>>

HttpMethods == <<Lit.GET, Lit.POST, Lit.PUT, Lit.DELETE, Lit.PATCH, Lit.HEAD, Lit.OPTIONS>>

\* re.sub(r'^(GET|POST|PUT|DELETE|PATCH|HEAD|OPTIONS)\s+', '', s)
StripMethod(s, methods) ==
    Let({i \in 1..Len(methods) :
            /\ StartsWith(s, methods[i])
            /\ Len(s) > Len(methods[i])
            /\ IsSpace(s[Len(methods[i]) + 1])}, LAMBDA ms :
        IF ms = {} THEN s
        ELSE LStrip(Drop(s, Len(methods[CHOOSE i \in ms : \A j \in ms : i <= j])), " "))
StripHttpMethod(s) == StripMethod(s, HttpMethods)

\* re.sub(r'[^\w\-/.]', '_', s)
ReplaceSpecial(s) ==
    [i \in 1..Len(s) |-> IF IsWord(s[i]) \/ s[i] \in {"-", "/", "."} THEN s[i] ELSE "_"]

\* return cleaned or 'unknown'
OrUnknown(cleaned) == IF cleaned = <<>> THEN Lit.unknown ELSE cleaned

\* Mutant of clean_operation_name: the underscores are trimmed before the characters
\* are replaced.
clean_operation_name_trim_first(operation_name) ==
    IF ~NameTruthy(operation_name) THEN Lit.unknown
    ELSE OrUnknown(ReplaceSpecial(Strip(StripHttpMethod(operation_name), "_")))

clean_operation_name(operation_name) ==
    IF ~NameTruthy(operation_name) THEN Lit.unknown
    ELSE OrUnknown(Strip(ReplaceSpecial(StripHttpMethod(operation_name)), "_"))

extract_simple_operation_name(operation_name) ==
    IF ~NameTruthy(operation_name) THEN Lit.unknown
    ELSE OrUnknown(AfterLast(AfterLast(clean_operation_name(operation_name), "/"), "."))

\* The regular expression -[a-f0-9]{8,}(-[a-z0-9]{5})?$ matches s from position i.
HashSuffix(r) ==
    \/ Len(r) >= 8 /\ \A j \in 1..Len(r) : IsLowerHex(r[j])
    \/ /\ Len(r) >= 14
       /\ \A j \in 1..(Len(r) - 6) : IsLowerHex(r[j])
       /\ r[Len(r) - 5] = "-"
       /\ \A j \in (Len(r) - 4)..Len(r) : IsLowerAlnum(r[j])
HashSuffixAt(s, i) == s[i] = "-" /\ HashSuffix(Drop(s, i))

extract_base_name(name) ==
    IF ~NameTruthy(name) THEN name
    ELSE Let({i \in 1..Len(name) : HashSuffixAt(name, i)}, LAMBDA cuts :
             IF cuts = {} THEN name
             ELSE Take(name, (CHOOSE i \in cuts : \A j \in cuts : i <= j) - 1))

\* sorted(S) of a set of str raises TypeError when None is compared with a str.
SortedRaises(S) == NoneName \in S /\ Cardinality(S) > 1

RECURSIVE Sorted(_)
\* sorted(S) of a set of str that does not raise.
Sorted(S) ==
    IF S = {} THEN <<>>
    ELSE Let(CHOOSE x \in S : \A y \in S \ {x} : LexLess(x, y),
             LAMBDA m : <<m>> \o Sorted(S \ {m}))

RECURSIVE SelectSeqBy(_, _)
\* The members of the set S in the order of the sequence order.
SelectSeqBy(order, S) ==
    IF order = <<>> THEN <<>>
    ELSE (IF Head(order) \in S THEN <<Head(order)>> ELSE <<>>) \o SelectSeqBy(Tail(order), S)

RECURSIVE Perms(_)
\* The orders in which a for loop can meet the members of a Python set.
Perms(S) ==
    IF S = {} THEN {<<>>}
    ELSE UNION {{<<x>> \o p : p \in Perms(S \ {x})} : x \in S}

\* The orders of iteration of a set: every order of its members (the order of a set
\* of str depends on the hash seed of the process).
Orders(S) == Perms(S)

\* An order of iteration for each set of a family of sets, each set with an order of
\* its own: two sets of the same members need not be iterated in the same order.
OrdersOfEach(keys, SetOf(_)) ==
    {orders \in [keys -> UNION {Orders(SetOf(k)) : k \in keys}] :
        \A k \in keys : orders[k] \in Orders(SetOf(k))}

\* dict operations; a dict is a sequence of [k |-> key, v |-> value].
EmptyDict == <<>>
DictKeys(d) == [i \in 1..Len(d) |-> d[i].k]
DictKeySet(d) == {d[i].k : i \in 1..Len(d)}
DictHas(d, key) == \E i \in 1..Len(d) : d[i].k = key
DictGet(d, key) == d[CHOOSE i \in 1..Len(d) : d[i].k = key].v
DictGetOr(d, key, default) == IF DictHas(d, key) THEN DictGet(d, key) ELSE default
DictPut(d, key, val) ==
    IF DictHas(d, key)
    THEN [i \in 1..Len(d) |-> IF d[i].k = key THEN [k |-> key, v |-> val] ELSE d[i]]
    ELSE Append(d, [k |-> key, v |-> val])
\* dict.update(other)
DictUpdate(d, other) == FoldLeft(LAMBDA acc, e : DictPut(acc, e.k, e.v), d, other)

---------------------------------------------------------------------------
(* models/reference.py, models/span.py, models/process.py, models/trace.py *)

CHILD_OF == "CHILD_OF"
FOLLOWS_FROM == "FOLLOWS_FROM"

unknown == <<"u","n","k","n","o","w","n">>

\* Mutant of get_parent_span_id: the first reference of any kind is taken as the parent.
get_parent_span_id_any_kind(span) ==
    IF span.references = <<>> THEN None ELSE Head(span.references).span_id

RECURSIVE get_parent_span_id_from(_)
get_parent_span_id_from(refs) ==
    IF refs = <<>> THEN None
    ELSE IF Head(refs).ref_type = CHILD_OF THEN Head(refs).span_id
    ELSE get_parent_span_id_from(Tail(refs))

\* Span.get_parent_span_id: the span_id of the first CHILD_OF reference, else None.
get_parent_span_id(span) == get_parent_span_id_from(span.references)

\* Trace.get_process: processes.get(process_id); None when absent.
has_process(trace, process_id) == DictHas(trace.processes, process_id)
get_process(trace, process_id) == DictGet(trace.processes, process_id)

\* Trace.get_service_name
get_service_name(trace, span) ==
    IF ~Truthy(span.process_id) THEN unknown
    ELSE IF has_process(trace, span.process_id)
         THEN get_process(trace, span.process_id).service_name
         ELSE unknown

\* Trace.get_span: the first span of the trace with that id; found = FALSE for None.
has_span(trace, span_id) == \E i \in 1..Len(trace.spans) : trace.spans[i].span_id = span_id
get_span(trace, span_id) ==
    trace.spans[CHOOSE i \in 1..Len(trace.spans) :
                    /\ trace.spans[i].span_id = span_id
                    /\ \A j \in 1..(i - 1) : trace.spans[j].span_id # span_id]

---------------------------------------------------------------------------
(* analyzer/trace_aggregator.py *)

\* TraceAggregator.__init__: the empty aggregate.
EmptyAgg ==
    [all_services         |-> {},
     service_operations   |-> EmptyDict,
     service_dependencies |-> EmptyDict,
     service_metadata     |-> EmptyDict,
     service_calls        |-> EmptyDict]

\* Mutant of CollectOperation: a span without a resolvable process is not collected.
CollectOperationKnownOnly(a, service_name, span) ==
    IF service_name = unknown THEN a
    ELSE [a EXCEPT
            !.all_services = @ \cup {service_name},
            !.service_operations =
                DictPut(@, service_name,
                        DictGetOr(@, service_name, {}) \cup {span.operation_name})]

\* _analyze_trace, lines 50-58: collect the service and the operation.
CollectOperation(a, service_name, span) ==
    [a EXCEPT
        !.all_services = @ \cup {service_name},
        !.service_operations =
            DictPut(@, service_name,
                    DictGetOr(@, service_name, {}) \cup {span.operation_name})]

\* Mutant of CollectMetadata: a key already present keeps its first value (setdefault).
CollectMetadataFirstWins(a, trace, service_name, span) ==
    IF /\ Truthy(span.process_id)
       /\ has_process(trace, span.process_id)
       /\ get_process(trace, span.process_id).tags # EmptyDict
    THEN [a EXCEPT !.service_metadata =
            DictPut(@, service_name,
                    DictUpdate(get_process(trace, span.process_id).tags,
                               DictGetOr(@, service_name, EmptyDict)))]
    ELSE a

\* _analyze_trace, lines 61-66: merge the owning process's tags.
CollectMetadata(a, trace, service_name, span) ==
    IF /\ Truthy(span.process_id)
       /\ has_process(trace, span.process_id)
       /\ get_process(trace, span.process_id).tags # EmptyDict
    THEN [a EXCEPT !.service_metadata =
            DictPut(@, service_name,
                    DictUpdate(DictGetOr(@, service_name, EmptyDict),
                               get_process(trace, span.process_id).tags))]
    ELSE a

\* Mutant of RecordCall: the edge's operation set is assigned, not added to.
RecordCallOverwrite(a, parent_service, service_name, span) ==
    [a EXCEPT
        !.service_dependencies =
            DictPut(@, parent_service,
                    DictGetOr(@, parent_service, {}) \cup {service_name}),
        !.service_calls =
            DictPut(@, parent_service,
                    DictPut(DictGetOr(@, parent_service, EmptyDict), service_name,
                            {span.operation_name}))]

\* _analyze_trace, lines 76-85: record the edge parent_service -> service_name.
RecordCall(a, parent_service, service_name, span) ==
    [a EXCEPT
        !.service_dependencies =
            DictPut(@, parent_service,
                    DictGetOr(@, parent_service, {}) \cup {service_name}),
        !.service_calls =
            DictPut(@, parent_service,
                    DictPut(DictGetOr(@, parent_service, EmptyDict), service_name,
                            DictGetOr(DictGetOr(@, parent_service, EmptyDict),
                                      service_name, {})
                                \cup {span.operation_name}))]

\* _analyze_trace, lines 69-85: the parent-child dependency of one span.
CollectDependency(a, trace, service_name, span) ==
    LET parent_span_id == get_parent_span_id(span) IN
    IF Truthy(parent_span_id) /\ has_span(trace, parent_span_id)
    THEN LET parent_service == get_service_name(trace, get_span(trace, parent_span_id)) IN
         IF service_name # parent_service
         THEN RecordCall(a, parent_service, service_name, span)
         ELSE a
    ELSE a

\* _analyze_trace, the body of the loop over trace.spans (lines 49-85).
analyze_span(a, trace, span) ==
    LET service_name == get_service_name(trace, span) IN
    CollectDependency(
        CollectMetadata(CollectOperation(a, service_name, span), trace, service_name, span),
        trace, service_name, span)

\* TraceAggregator._analyze_trace
analyze_trace(a, trace) ==
    FoldLeft(LAMBDA acc, span : analyze_span(acc, trace, span), a, trace.spans)

\* TraceAggregator.__init__ with _analyze: the aggregate of a trace list.
TraceAggregator(trace_list) == FoldLeft(analyze_trace, EmptyAgg, trace_list)

---------------------------------------------------------------------------
(* Inputs: the bounded universes of traces *)

api == <<"a","p","i">>
cart == <<"c","a","r","t">>
db == <<"d","b">>

opX == <<"G","E","T"," ","/","c">>
opY == <<"c",".","S","/","E">>
opZ == <<"x","/","c">>

h1 == <<"h","1">>
h2 == <<"h","2">>
h3 == <<"h","3">>
podc == <<"c","-","1">>

Process(service_name, tags) == [service_name |-> service_name, tags |-> tags]
Tag(key, val) == [k |-> key, v |-> val]
Proc(pid, process) == [k |-> pid, v |-> process]

\* Process maps of a trace: p1 and p2 are two services; p1 and p2 are one service with
\* different tags; p1 has no tags and p2 is not in the map.
ProcessMaps ==
    { << Proc("p1", Process(api, <<Tag("hostname", h1)>>)),
         Proc("p2", Process(cart, <<Tag("hostname", h2), Tag("pod.name", podc)>>)) >>,
      << Proc("p1", Process(api, <<Tag("hostname", h3), Tag("pod.name", podc)>>)),
         Proc("p2", Process(api, <<Tag("hostname", h2)>>)) >>,
      << Proc("p1", Process(cart, <<>>)) >> }

ProcessIds == {"", "p1", "p2"}
SpanIds == {"", "s1", "s2"}
OpNames == {opX, opY}
RefTypes == {CHILD_OF, FOLLOWS_FROM}

Reference(ref_type, span_id) == [ref_type |-> ref_type, span_id |-> span_id]

Span(span_id, operation_name, process_id, references) ==
    [span_id |-> span_id, operation_name |-> operation_name,
     process_id |-> process_id, references |-> references,
     start_time |-> 0, duration |-> 0, tags |-> EmptyDict]

Trace(spans, processes) == [spans |-> spans, processes |-> processes, source_name |-> NoneName]

SeqsUpTo(S, n) == UNION {[1..m -> S] : m \in 0..n}

\* Reference lists of up to MaxRefs references of either kind to a span id.
RefLists(targets) == SeqsUpTo({Reference(rt, t) : rt \in RefTypes, t \in targets}, MaxRefs)

\* Spans with any id, process id and reference list: the spans of a trace may share
\* an id, have the empty id, and reference themselves, each other or no span.
RichSpans ==
    {Span(id, op, pid, refs) :
        id \in SpanIds, op \in {opX}, pid \in ProcessIds, refs \in RefLists(SpanIds)}

\* Spans that are a root or a child of the span s1; NumberSpans gives the i-th span of
\* a trace the id "s<i>".
PlainSpans ==
    {Span("", op, pid, refs) :
        op \in OpNames, pid \in ProcessIds, refs \in {<<>>, <<Reference(CHILD_OF, "s1")>>}}
SpanIdAt == <<"s1", "s2", "s3", "s4">>
NumberSpans(ss) == [i \in 1..Len(ss) |-> [ss[i] EXCEPT !.span_id = SpanIdAt[i]]]

---------------------------------------------------------------------------
(* renderer/xmi_writer.py: the serializer *)

\* XmiFormat: the members of the enumeration.
XmiFormatMembers ==
    {[enum |-> "XmiFormat", name |-> "PAPYRUS", value |-> "papyrus"],
     [enum |-> "XmiFormat", name |-> "MAGICDRAW", value |-> "magicdraw"]}
MAGICDRAW == [enum |-> "XmiFormat", name |-> "MAGICDRAW", value |-> "magicdraw"]
PAPYRUS == [enum |-> "XmiFormat", name |-> "PAPYRUS", value |-> "papyrus"]

\* A selector given by a caller: a str, or a member of XmiFormat.
IsMember(x) == x \in XmiFormatMembers
Selector(s) == [enum |-> "str", name |-> "", value |-> s]

\* XmiFormat(x): the member with value x, or x itself when it is a member;
\* ValueError for anything else.
XmiFormat(x) ==
    IF IsMember(x) THEN [raised |-> None, value |-> x]
    ELSE IF \E m \in XmiFormatMembers : m.value = x.value
    THEN [raised |-> None, value |-> CHOOSE m \in XmiFormatMembers : m.value = x.value]
    ELSE [raised |-> "ValueError", value |-> None]

\* XmiWriter.__init__(format): no check of format; the namespaces of MagicDraw for
\* the member MAGICDRAW and those of Papyrus for every other value.
XmiWriter(format) ==
    [cls |-> "XmiWriter",
     format |-> format,
     XMI_NAMESPACE |-> "http://www.omg.org/spec/XMI/20131001",
     UML_NAMESPACE |-> IF format = MAGICDRAW
                       THEN "http://www.omg.org/spec/UML/20131001"
                       ELSE "http://www.eclipse.org/uml2/5.0.0/UML"]

\* ET.register_namespace(prefix, uri): the entries with this uri or this prefix are
\* deleted, then the uri gets the prefix; the registry is one for the whole process.
register_namespace(map, prefix, uri) ==
    Append(SelectSeq(map, LAMBDA e : e.k # uri /\ e.v # prefix), [k |-> uri, v |-> prefix])

\* XmiWriter.__init__, lines 43-44: the prefixes xmi and uml are registered for the
\* namespaces of the new writer.
RegisterWriter(map, writer) ==
    register_namespace(register_namespace(map, "xmi", writer.XMI_NAMESPACE),
                       "uml", writer.UML_NAMESPACE)

\* XmiWriter(format) as a constructor call: the writer and the registry it leaves.
NewWriter(format, map) ==
    [raised |-> None, value |-> XmiWriter(format),
     namespace_map |-> RegisterWriter(map, XmiWriter(format))]

\* The __init__ of a diagram generator: XmiFormat(xmi_format), which raises ValueError
\* before any writer is made, then XmiWriter(format_enum).
GeneratorInit(cls, format_enum, map) ==
    IF format_enum.raised # None
    THEN [raised |-> format_enum.raised, value |-> None, namespace_map |-> map]
    ELSE [raised |-> None,
          value |-> [cls |-> cls, xmi_writer |-> XmiWriter(format_enum.value)],
          namespace_map |-> RegisterWriter(map, XmiWriter(format_enum.value))]

\* An identifier: uuid4 is the next number of the counter; MarteProfileWriter puts
\* the prefix _marte_ before it.
\* Mutant of Uuid: generate_uuid returns one and the same value.
UuidConstant(n) == <<"", 0>>
Uuid(n) == <<"", n>>
MarteUuid(n) == <<"_marte_", n>>

\* An attribute value that is a literal of the code.
A(s) == <<s>>
\* f"uml:{element_type}"
UmlType(element_type) == <<"uml", element_type>>
\* f"{x}" of an Optional[str]
Fmt(x) == IF x = NoneName THEN <<"N", "o", "n", "e">> ELSE x

\* An element of the tree: its tag, the position of its parent in the document (0
\* for the root), its attributes in the order they were set and its text.
Element(tag, parent) == [tag |-> tag, parent |-> parent, attrs |-> EmptyDict, text |-> <<>>]

\* The frame of a builder: doc is the tree under construction (the elements in the
\* order of creation), uuid the number of identifiers allocated so far, exc the
\* exception raised (None while none is), ret the value of the last call.
Frame(uuid) == [doc |-> <<>>, uuid |-> uuid, exc |-> None, ret |-> None]

\* ET.SubElement(parent, tag) followed by element.set(key, value) for each attribute.
SubElement(f, parent, tag, attrs) ==
    [f EXCEPT !.doc = Append(@, [Element(tag, parent) EXCEPT !.attrs = attrs]),
              !.ret = [elem |-> Len(f.doc) + 1, id |-> None]]

\* The same, for an element that gets an identifier from generate_uuid().
SubElementWithId(f, parent, tag, before, after) ==
    [f EXCEPT !.doc = Append(@, [Element(tag, parent) EXCEPT
                                    !.attrs = DictUpdate(DictPut(before, "xmi:id", Uuid(f.uuid + 1)),
                                                         after)]),
              !.uuid = @ + 1,
              !.ret = [elem |-> Len(f.doc) + 1, id |-> Uuid(f.uuid + 1)]]

Attr(key, value) == [k |-> key, v |-> value]

\* create_xmi_document: the root and the Model element.
create_xmi_document(f, writer, model_name) ==
    SubElementWithId(SubElement(f, 0, "xmi:XMI", <<Attr("xmi:version", A("2.5.1"))>>),
                     1, "uml:Model", EmptyDict, <<Attr("name", model_name)>>)

\* get_model_element: the first child of the root whose tag ends with Model.
get_model_element(f) == CHOOSE e \in 1..Len(f.doc) :
    /\ f.doc[e].parent = 1 /\ f.doc[e].tag = "uml:Model"
    /\ \A d \in 1..(e - 1) : ~(f.doc[d].parent = 1 /\ f.doc[d].tag = "uml:Model")

create_packaged_element(f, parent, element_type, name, kwargs) ==
    SubElementWithId(f, parent, "packagedElement",
                     <<Attr("xmi:type", UmlType(element_type))>>,
                     <<Attr("name", name)>> \o kwargs)

create_owned_element(f, parent, element_name, kwargs) ==
    SubElementWithId(f, parent, element_name, EmptyDict, kwargs)

\* add_comment: ownedComment with a body; returns the comment.
add_comment(f, parent, comment_text) ==
    Let(SubElementWithId(f, parent, "ownedComment", EmptyDict, EmptyDict), LAMBDA c :
        [SubElement(c, c.ret.elem, "body", EmptyDict)
         EXCEPT !.doc[Len(c.doc) + 1].text = comment_text, !.ret = c.ret])

create_package(f, parent, name) == create_packaged_element(f, parent, "Package", name, EmptyDict)

create_usage(f, parent, name, client_id, supplier_id) ==
    Let(create_packaged_element(f, parent, "Usage", name, EmptyDict), LAMBDA u :
        [SubElement(SubElement(u, u.ret.elem, "client", <<Attr("xmi:idref", client_id)>>),
                    u.ret.elem, "supplier", <<Attr("xmi:idref", supplier_id)>>)
         EXCEPT !.ret = u.ret])

create_interface_realization(f, parent, name, client_id, supplier_id) ==
    Let(create_packaged_element(f, parent, "InterfaceRealization", name, EmptyDict), LAMBDA r :
        [SubElement(SubElement(SubElement(r, r.ret.elem, "client",
                                          <<Attr("xmi:idref", client_id)>>),
                               r.ret.elem, "supplier", <<Attr("xmi:idref", supplier_id)>>),
                    r.ret.elem, "contract", <<Attr("xmi:idref", supplier_id)>>)
         EXCEPT !.ret = r.ret])

\* create_interface: the Interface and one public ownedOperation for each name.
create_interface(f, parent, name, operations) ==
    Let(create_packaged_element(f, parent, "Interface", name, EmptyDict), LAMBDA i :
        [FoldLeft(LAMBDA acc, op_name :
                      create_owned_element(acc, i.ret.elem, "ownedOperation",
                          <<Attr("name", op_name), Attr("visibility", A("public"))>>),
                  i, operations)
         EXCEPT !.ret = i.ret])

\* The namespaces of the MARTE sub-profiles (marte_profile.py, lines 22-28), the
\* prefixes MarteProfileWriter.__init__ registers for them and the tags it creates in
\* them, in the order of the prefixes.
MARTE_NS == "http://www.omg.org/spec/MARTE/1.2"
GQAM_NS == MARTE_NS \o "/GQAM"
PAM_NS == MARTE_NS \o "/PAM"
GRM_NS == MARTE_NS \o "/GRM"
MarteNamespaces ==
    <<[prefix |-> "MARTE_GQAM", uri |-> GQAM_NS, tags |-> {"MARTE_GQAM:GaAnalysisContext"}],
      [prefix |-> "MARTE_GRM", uri |-> GRM_NS,
       tags |-> {"MARTE_GRM:RtUnit", "MARTE_GRM:GaExecHost"}],
      [prefix |-> "MARTE_PAM", uri |-> PAM_NS, tags |-> {"MARTE_PAM:PaStep"}]>>

\* MarteProfileWriter.__init__, lines 54-56
RegisterMarte(map) ==
    register_namespace(
        register_namespace(register_namespace(map, "MARTE_GQAM", GQAM_NS), "MARTE_PAM", PAM_NS),
        "MARTE_GRM", GRM_NS)

\* ET.tostring, the prefix of the UML namespace of the writer: the one registered for
\* it when the text is made, else ns1 (it is the second namespace the serializer
\* meets, after XMI's, and the first that has no prefix).
UmlPrefix(writer, map) ==
    IF DictHas(map, writer.UML_NAMESPACE) THEN DictGet(map, writer.UML_NAMESPACE) ELSE "ns1"

\* ET.tostring, the declarations on the root, before its own attributes: one for each
\* namespace of a tag of the document, in the order of the prefixes (MARTE_..., then
\* ns1 or uml, then xmi).
Declarations(doc, writer, uml_prefix) ==
    FoldLeft(LAMBDA acc, m : IF \E e \in 1..Len(doc) : doc[e].tag \in m.tags
                             THEN Append(acc, Attr("xmlns:" \o m.prefix, A(m.uri)))
                             ELSE acc,
             <<>>, MarteNamespaces)
    \o <<Attr("xmlns:" \o uml_prefix, A(writer.UML_NAMESPACE)),
         Attr("xmlns:xmi", A(writer.XMI_NAMESPACE))>>

\* ET.tostring, the text: the root with the declarations, and the Model element under
\* the prefix of the UML namespace; held as the tree it renders.
Rendered(doc, writer, uml_prefix) ==
    [e \in 1..Len(doc) |->
        IF e = 1 THEN [doc[e] EXCEPT !.attrs = Declarations(doc, writer, uml_prefix) \o @]
        ELSE IF doc[e].tag = "uml:Model" THEN [doc[e] EXCEPT !.tag = uml_prefix \o ":Model"]
        ELSE doc[e]]

\* document_to_string: ET.tostring raises TypeError for an attribute that is None
\* ("cannot serialize None"); map is the registry of prefixes at this moment.
document_to_string(f, writer, map) ==
    IF \E e \in 1..Len(f.doc) : \E a \in 1..Len(f.doc[e].attrs) : f.doc[e].attrs[a].v = NoneName
    THEN [f EXCEPT !.exc = "TypeError"]
    ELSE [f EXCEPT !.ret = Rendered(f.doc, writer, UmlPrefix(writer, map))]

\* The str a builder returns: '' or the text of a document.
EmptyStr == <<>>

---------------------------------------------------------------------------
(* generators/component_diagram_generator.py *)

\* SERVICE_CATEGORIES, in the order of the dict.
SERVICE_CATEGORIES ==
    <<Attr(Lit.frontend, Lit.Presentation), Attr(Lit.ui, Lit.Presentation),
      Attr(Lit.web, Lit.Presentation), Attr(Lit.client, Lit.Presentation),
      Attr(Lit.gateway, Lit.Presentation), Attr(Lit.database, Lit.DataLayer),
      Attr(Lit.db, Lit.DataLayer), Attr(Lit.mongo, Lit.DataLayer),
      Attr(Lit.postgres, Lit.DataLayer), Attr(Lit.mysql, Lit.DataLayer),
      Attr(Lit.redis, Lit.DataLayer), Attr(Lit.cache, Lit.DataLayer),
      Attr(Lit.memcache, Lit.DataLayer)>>

\* The number of operations an Interface lists.
MaxInterfaceOps == 15

\* ComponentDiagramGenerator.__init__: XmiFormat(xmi_format), then the writer.
ComponentDiagramGenerator(xmi_format, map) ==
    GeneratorInit("ComponentDiagramGenerator", XmiFormat(xmi_format), map)

\* _categorize_services, the category of one service: the first keyword of
\* SERVICE_CATEGORIES found in the lower-case name, else Services.
FirstCategory(categories, lower_name) ==
    Let({i \in 1..Len(categories) : Contains(lower_name, categories[i].k)}, LAMBDA hits :
        IF hits = {} THEN Lit.Services
        ELSE categories[CHOOSE i \in hits : \A j \in hits : i <= j].v)
CategoryOf(service) == FirstCategory(SERVICE_CATEGORIES, Lower(service))

\* Mutant of categorize_services: a service a keyword puts in a category is put in
\* Services as well.
categorize_services_twice(services) ==
    Let(<<Lit.Presentation, Lit.Services, Lit.DataLayer>>, LAMBDA categories :
        SelectSeq([i \in 1..3 |->
                      Attr(categories[i], {s \in services : CategoryOf(s) = categories[i]
                                                            \/ categories[i] = Lit.Services})],
                  LAMBDA c : c.v # {}))

\* _categorize_services: the categories that have a service, in the order
\* Presentation, Services, DataLayer; None has no lower() (AttributeError).
categorize_services(services) ==
    Let(<<Lit.Presentation, Lit.Services, Lit.DataLayer>>, LAMBDA categories :
        SelectSeq([i \in 1..3 |->
                      Attr(categories[i], {s \in services : CategoryOf(s) = categories[i]})],
                  LAMBDA c : c.v # {}))

AnyKeywordIn(keywords, lower_name) == \E kw \in keywords : Contains(lower_name, kw)

StereotypeOf(service_name, lower_name, metadata) ==
    IF ~NameTruthy(service_name) THEN ""
    ELSE IF AnyKeywordIn({Lit.frontend, Lit.ui, Lit.web, Lit.client}, lower_name) THEN "WebUI"
    ELSE IF AnyKeywordIn({Lit.gateway, Lit.api_gateway, Lit.ingress}, lower_name) THEN "Gateway"
    ELSE IF AnyKeywordIn({Lit.database, Lit.db, Lit.mongo, Lit.postgres, Lit.mysql}, lower_name)
         THEN "Database"
    ELSE IF AnyKeywordIn({Lit.cache, Lit.redis, Lit.memcache}, lower_name) THEN "Cache"
    ELSE IF /\ DictHas(metadata, "rpc.system")
            /\ DictGet(metadata, "rpc.system") # NoneName
            /\ Contains(Lower(DictGet(metadata, "rpc.system")), Lit.grpc)
         THEN "gRPC Service"
    ELSE IF EndsWith(lower_name, Lit.service) THEN "Microservice"
    ELSE "Component"
detect_service_stereotype(service_name, metadata) ==
    StereotypeOf(service_name,
                 IF NameTruthy(service_name) THEN Lower(service_name) ELSE service_name,
                 metadata)

\* _create_component: the Component and its stereotype as a comment.
create_component(f, parent, service_name, metadata) ==
    Let(detect_service_stereotype(service_name, metadata), LAMBDA stereotype :
    Let(create_packaged_element(f, parent, "Component", service_name,
                                <<Attr("visibility", A("public"))>>), LAMBDA c :
        IF stereotype # ""
        THEN [add_comment(c, c.ret.elem, <<"«", stereotype, "»">>) EXCEPT !.ret = c.ret]
        ELSE c))

\* _get_provided_operations: the operations of every caller's calls of the service.
get_provided_operations(service_name, service_calls) ==
    UNION {IF DictHas(service_calls[i].v, service_name)
           THEN DictGet(service_calls[i].v, service_name) ELSE {} :
           i \in 1..Len(service_calls)}

capitalize_service_name(name) ==
    Let(Split(Replace(Replace(Replace(Replace(name, Lit.service, <<>>), Lit.Service, <<>>),
                              <<"-">>, <<" ">>), <<"_">>, <<" ">>)), LAMBDA parts :
        IF parts # <<>>
        THEN Join([i \in 1..Len(parts) |-> Capitalize(parts[i])])
        ELSE Capitalize(name))

\* generate_xmi, lines 96-106: the packages of the categories and their components.
\* cat_orders: the order in which this run meets the services of each category.
CreateComponents(f, model, categorized_services, service_metadata, cat_orders) ==
    FoldLeft(LAMBDA acc, category :
        Let(create_package(acc, model, category.k), LAMBDA pkg :
            FoldLeft(LAMBDA acc2, service :
                        Let(create_component(acc2, pkg.ret.elem, service,
                                             DictGetOr(service_metadata, service, EmptyDict)),
                            LAMBDA c : [c EXCEPT !.component_ids = DictPut(@, service, c.ret.id)]),
                     pkg, SelectSeqBy(cat_orders[category.k], category.v))),
        f, categorized_services)

\* generate_xmi, lines 112-133: one Interface for every service that is called.
\* The clean names of all the members of list(provided_ops), without the [:15].
CleanOpsUncapped(all_ops) == [i \in 1..Len(all_ops) |-> clean_operation_name(all_ops[i])]

\* list(provided_ops)[:15] and the clean names of its members.
CleanOps(all_ops) ==
    [i \in 1..(IF Len(all_ops) > MaxInterfaceOps THEN MaxInterfaceOps ELSE Len(all_ops)) |->
        clean_operation_name(all_ops[i])]

CreateInterface(f, interfaces_package, callee_service, provided_ops, op_order) ==
    IF provided_ops = {} THEN f
    ELSE Let(create_interface(f, interfaces_package,
                              Lit.I \o capitalize_service_name(callee_service),
                              CleanOps(SelectSeqBy(op_order, provided_ops))), LAMBDA i :
         Let([i EXCEPT !.interface_ids = DictPut(@, callee_service, i.ret.id)], LAMBDA r :
             IF Cardinality(provided_ops) > MaxInterfaceOps
             THEN add_comment(r, i.ret.elem,
                      <<"+", Cardinality(provided_ops) - MaxInterfaceOps, " more operations">>)
             ELSE r))

CreateInterfaces(f, interfaces_package, services, service_calls, svc_order, op_orders) ==
    FoldLeft(LAMBDA acc, callee_service :
                CreateInterface(acc, interfaces_package, callee_service,
                                get_provided_operations(callee_service, service_calls),
                                op_orders[callee_service]),
             f, SelectSeqBy(svc_order, services))

\* generate_xmi, lines 144-171: for one caller and one callee, the Usage and, when
\* the callee is not in _created_realizations, the InterfaceRealization.
\* lines 148-157: the Usage of the callee's Interface by the caller.
CreateUsage(f, relationships_package, caller_service, callee_service) ==
    IF DictHas(f.component_ids, caller_service) /\ DictHas(f.interface_ids, callee_service)
    THEN create_usage(f, relationships_package,
                      Fmt(caller_service) \o Lit.uses \o Fmt(callee_service),
                      DictGet(f.component_ids, caller_service),
                      DictGet(f.interface_ids, callee_service))
    ELSE f

\* Mutant of CreateRealization: no look at _created_realizations; one
\* InterfaceRealization for each pair of a caller and a callee.
CreateRealizationUnchecked(f, relationships_package, callee_service) ==
    IF DictHas(f.component_ids, callee_service) /\ DictHas(f.interface_ids, callee_service)
    THEN create_interface_realization(f, relationships_package,
             Fmt(callee_service) \o Lit.provides_I \o Fmt(callee_service),
             DictGet(f.component_ids, callee_service),
             DictGet(f.interface_ids, callee_service))
    ELSE f

\* lines 160-171: the InterfaceRealization of the callee's Interface by the callee.
CreateRealization(f, relationships_package, callee_service) ==
    IF /\ DictHas(f.component_ids, callee_service) /\ DictHas(f.interface_ids, callee_service)
       /\ callee_service \notin f.created_realizations
    THEN [create_interface_realization(f, relationships_package,
              Fmt(callee_service) \o Lit.provides_I \o Fmt(callee_service),
              DictGet(f.component_ids, callee_service),
              DictGet(f.interface_ids, callee_service))
          EXCEPT !.created_realizations = @ \cup {callee_service}]
    ELSE f

CreateRelationships(f, relationships_package, caller_service, callee_service) ==
    CreateRealization(CreateUsage(f, relationships_package, caller_service, callee_service),
                      relationships_package, callee_service)

\* A statement after f: skipped when an exception is on its way to the except clause.
Then(f, Step(_)) == IF f.exc # None THEN f ELSE Step(f)
Raise(f, exception) == [f EXCEPT !.exc = exception]

\* TraceAggregator(traces) raises TypeError in _analyze, where sorted(self.all_services)
\* is formatted for the log, when None is a service beside another service.
AnalyzeRaises(aggregator) == SortedRaises(aggregator.all_services)

\* The exceptions a body raises; all are subclasses of Exception.
Exceptions == {"TypeError", "AttributeError", "ValueError"}

\* Mutant of Catches: a clause except ValueError.
CatchesValueError(exception) == exception = "ValueError"

\* except Exception as e: the clause of every builder.
Catches(exception) == exception \in Exceptions

\* What a builder returns: '' when the body raised, else the document.
Returned(f) == IF f.exc # None THEN EmptyStr ELSE f.ret

\* The exception that leaves the builder: one the except clause does not catch.
Propagated(f) == IF f.exc # None /\ ~Catches(f.exc) THEN f.exc ELSE None

\* generate_xmi, lines 70-177: the body of the try statement; created is the class
\* attribute _created_realizations; cat_orders, svc_order and op_orders are the orders
\* in which this run meets the services of each category, the members of the set of
\* all services and the operations of each callee.
ComponentBody(self, traces, created, uuid, map, cat_orders, svc_order, op_orders) ==
    Let(TraceAggregator(traces), LAMBDA aggregator :
        LET f0 == [doc |-> <<>>, uuid |-> uuid, exc |-> None, ret |-> None,
                   component_ids |-> EmptyDict, interface_ids |-> EmptyDict,
                   created_realizations |-> created]
            model_name == IF NameTruthy(traces[1].source_name)
                          THEN traces[1].source_name \o Lit.Component
                          ELSE Lit.ComponentDiagram
            Document(f) == create_xmi_document(f, self.xmi_writer, model_name)
            Categorize(f) == IF NoneName \in aggregator.all_services
                             THEN Raise(f, "AttributeError") ELSE f
            Components(f) == CreateComponents(f, get_model_element(f),
                                 categorize_services(aggregator.all_services),
                                 aggregator.service_metadata, cat_orders)
            Interfaces(f) ==
                Let(create_package(f, get_model_element(f), Lit.Interfaces), LAMBDA p :
                    CreateInterfaces(p, p.ret.elem, aggregator.all_services,
                                     aggregator.service_calls, svc_order, op_orders))
            ToString(f) == document_to_string(f, self.xmi_writer, map)
            Relationships(f) ==
                Let(create_package(f, get_model_element(f), Lit.Relationships), LAMBDA p :
                    FoldLeft(LAMBDA acc, caller :
                        FoldLeft(LAMBDA acc2, callee :
                                    CreateRelationships(acc2, p.ret.elem, caller.k, callee.k),
                                 acc, caller.v),
                        p, aggregator.service_calls))
        IN IF AnalyzeRaises(aggregator) THEN Raise(f0, "TypeError")
           ELSE Then(Then(Then(Then(Then(Document(f0), Categorize), Components), Interfaces),
                          Relationships), ToString))

\* generate_xmi: '' for no traces and for an exception in the body, else the
\* document; with the class attribute and the number of identifiers after the call.
ComponentGenerateXmi(self, traces, created, uuid, map, cat_orders, svc_order, op_orders) ==
    IF traces = <<>>
    THEN [result |-> EmptyStr, raised |-> None, caught |-> None,
          created_realizations |-> created, uuid |-> uuid]
    ELSE Let(ComponentBody(self, traces, created, uuid, map, cat_orders, svc_order, op_orders),
             LAMBDA f : [result |-> Returned(f), raised |-> Propagated(f), caught |-> f.exc,
                         created_realizations |-> f.created_realizations,
                         uuid |-> f.uuid])

---------------------------------------------------------------------------
(* renderer/marte_profile.py *)

\* add_profile_application: the profileApplication of the Model element.
add_profile_application(f, model) ==
    SubElement([SubElement(f, model, "profileApplication",
                           <<Attr("xmi:type", A("uml:ProfileApplication")),
                             Attr("xmi:id", MarteUuid(f.uuid + 1))>>)
                EXCEPT !.uuid = @ + 1],
               Len(f.doc) + 1, "appliedProfile",
               <<Attr("xmi:type", A("uml:Profile")),
                 Attr("href", A("pathmap://MARTE_PROFILE/MARTE.profile.uml#_ar8OsAPMEdyuUvV5MHMtrQ"))>>)

\* A stereotype application: a child of the root with an identifier of its own, the
\* base_ reference to the annotated element and the tagged values.
\* Mutant of ApplyStereotype: the record is nested under the element it annotates.
ApplyStereotypeNested(f, tag, base_key, base_id, tagged_values) ==
    [SubElement(f, CHOOSE e \in 1..Len(f.doc) : DictGetOr(f.doc[e].attrs, "xmi:id", <<>>) = base_id,
                tag,
                <<Attr("xmi:id", MarteUuid(f.uuid + 1)), Attr(base_key, base_id)>> \o tagged_values)
     EXCEPT !.uuid = @ + 1]

ApplyStereotype(f, tag, base_key, base_id, tagged_values) ==
    [SubElement(f, 1, tag,
                <<Attr("xmi:id", MarteUuid(f.uuid + 1)), Attr(base_key, base_id)>> \o tagged_values)
     EXCEPT !.uuid = @ + 1]

\* apply_rt_unit(root, component_id, is_active=True)
apply_rt_unit(f, component_id) ==
    ApplyStereotype(f, "MARTE_GRM:RtUnit", "base_BehavioredClassifier", component_id,
                    <<Attr("isActive", A("true"))>>)

\* apply_ga_exec_host(root, node_id, speed_factor=1.0)
apply_ga_exec_host(f, node_id) ==
    ApplyStereotype(f, "MARTE_GRM:GaExecHost", "base_Classifier", node_id, <<>>)

\* apply_ga_analysis_context(root, interaction_id, {'isSingleMode': True})
apply_ga_analysis_context(f, interaction_id) ==
    ApplyStereotype(f, "MARTE_GQAM:GaAnalysisContext", "base_NamedElement", interaction_id,
                    <<Attr("isSingleMode", A("true"))>>)

\* Mutant of hostDemand: the thousandths are written without leading zeros.
hostDemandUnpadded(duration) ==
    <<"(value=">> \o NatToStr(duration \div 1000) \o <<".">> \o NatToStr(duration % 1000)
        \o <<",unit=ms)">>

\* f"(value={host_demand_ms:.3f},unit=ms)" with host_demand_ms = duration / 1000.0 for a
\* duration in whole microseconds: the quotient is a multiple of 0.001 up to the error
\* of the division, so that the three decimals are the three digits of duration % 1000.
hostDemand(duration) ==
    <<"(value=">> \o NatToStr(duration \div 1000) \o <<".">>
        \o <<Chars[5 + ((duration % 1000) \div 100)], Chars[5 + (((duration % 1000) \div 10) % 10)],
             Chars[5 + (duration % 10)]>>
        \o <<",unit=ms)">>

\* apply_pa_step(root, message_id, host_demand_ms, prob=1.0, no_sync): the caller
\* passes the probability 1.0, for which no prob attribute is written.
apply_pa_step(f, message_id, duration, no_sync) ==
    ApplyStereotype(f, "MARTE_PAM:PaStep", "base_NamedElement", message_id,
        <<Attr("hostDemand", hostDemand(duration))>>
        \o (IF no_sync THEN <<Attr("noSync", A("true"))>> ELSE <<>>))

---------------------------------------------------------------------------
(* generators/unified_generator.py *)

\* The registries of a new generator and after the six clear() of generate.
EmptyRegistries ==
    [component_ids |-> EmptyDict, operation_ids |-> EmptyDict, artifact_ids |-> EmptyDict,
     node_ids |-> EmptyDict, interaction_ids |-> EmptyDict, message_ids |-> <<>>]

\* UnifiedXmiGenerator.__init__: XmiFormat(xmi_format), the writer, a MarteProfileWriter
\* whether or not include_marte is set, and the six empty registries.
UnifiedInit(format_enum, include_marte, map) ==
    IF format_enum.raised # None
    THEN [raised |-> format_enum.raised, value |-> None, namespace_map |-> map]
    ELSE [raised |-> None,
          value |-> [cls |-> "UnifiedXmiGenerator",
                     xmi_writer |-> XmiWriter(format_enum.value),
                     include_marte |-> include_marte,
                     reg |-> EmptyRegistries],
          namespace_map |-> RegisterMarte(RegisterWriter(map, XmiWriter(format_enum.value)))]
UnifiedXmiGenerator(xmi_format, include_marte, map) ==
    UnifiedInit(XmiFormat(xmi_format), include_marte, map)

\* _generate_components, lines 137-143: one operation of a component.
\* Mutant of AddOperation: the Operation is created and not registered.
AddOperationUnregistered(f, component, service, clean_op) ==
    Let(create_owned_element(f, component, "ownedOperation",
                             <<Attr("name", clean_op), Attr("visibility", A("public"))>>),
        LAMBDA o :
            [o EXCEPT !.doc[o.ret.elem].attrs = DictPut(@, "xmi:type", A("uml:Operation"))])

AddOperation(f, component, service, clean_op) ==
    Let(create_owned_element(f, component, "ownedOperation",
                             <<Attr("name", clean_op), Attr("visibility", A("public"))>>),
        LAMBDA o :
            [o EXCEPT !.doc[o.ret.elem].attrs = DictPut(@, "xmi:type", A("uml:Operation")),
                      !.reg.operation_ids =
                          DictPut(@, service, DictPut(DictGet(@, service), clean_op, o.ret.id))])

\* _generate_components, lines 136-143: the operations of one component, sorted.
AddOperations(f, component, service, operations) ==
    IF SortedRaises(operations) THEN Raise(f, "TypeError")
    ELSE FoldLeft(LAMBDA acc, op_name :
                      AddOperation(acc, component, service,
                                   extract_simple_operation_name(op_name)),
                  f, Sorted(operations))

\* _generate_components, lines 125-143: one component and its operations.
AddComponent(f, components_pkg, service, operations) ==
    Let(create_packaged_element(f, components_pkg, "Component", service,
                                <<Attr("visibility", A("public"))>>), LAMBDA c :
        AddOperations([c EXCEPT !.reg.component_ids = DictPut(@, service, c.ret.id),
                                !.reg.operation_ids = DictPut(@, service, EmptyDict)],
                      c.ret.elem, service, operations))

\* _generate_components, lines 124-143: the components in sorted order.
AddComponents(f, components_pkg, aggregator) ==
    IF SortedRaises(aggregator.all_services) THEN Raise(f, "TypeError")
    ELSE FoldLeft(LAMBDA acc, service :
            Then(acc, LAMBDA a :
                AddComponent(a, components_pkg, service,
                             DictGetOr(aggregator.service_operations, service, {}))),
            f, Sorted(aggregator.all_services))

\* _generate_components, lines 151-160: the Usage of one caller and one callee, once
\* for each key caller_to_callee.
AddDependency(f, deps_pkg, caller, callee, dep_key) ==
    IF /\ DictHas(f.reg.component_ids, caller)
       /\ DictHas(f.reg.component_ids, callee)
       /\ dep_key \notin f.created_deps
    THEN [create_usage(f, deps_pkg, dep_key,
                       DictGet(f.reg.component_ids, caller),
                       DictGet(f.reg.component_ids, callee))
          EXCEPT !.created_deps = @ \cup {dep_key}]
    ELSE f

\* _generate_components, lines 146-160
AddDependencies(f, deps_pkg, service_calls) ==
    FoldLeft(LAMBDA acc, caller :
        FoldLeft(LAMBDA acc2, callee :
                    AddDependency(acc2, deps_pkg, caller.k, callee.k,
                                  Fmt(caller.k) \o Lit.to \o Fmt(callee.k)),
                 acc, caller.v),
        f, service_calls)

generate_components(f, model, aggregator) ==
    Let(create_package(f, model, Lit.Components), LAMBDA p :
        Then(AddComponents(p, p.ret.elem, aggregator), LAMBDA a :
            Let(create_package(a, model, Lit.Dependencies), LAMBDA d :
                AddDependencies([d EXCEPT !.created_deps = {}], d.ret.elem,
                                aggregator.service_calls))))

\* The values abs(hash(str(metadata)) % 10000) can take: the hash of a str depends on
\* the hash seed of the process.
HashModulus == 10000
HashValues == 0..(HashModulus - 1)

\* The first key of keys whose value in metadata is true; 0 for none.
FirstTag(metadata, keys) ==
    Let({i \in 1..Len(keys) :
            DictHas(metadata, keys[i]) /\ NameTruthy(DictGet(metadata, keys[i]))}, LAMBDA found :
        IF found = {} THEN 0 ELSE CHOOSE i \in found : \A j \in found : i <= j)

\* UnifiedXmiGenerator._extract_node; hash_of gives this run's hash of a metadata.
UnifiedNodeOf(metadata, hash_of, keys, key) ==
    IF metadata = EmptyDict THEN Lit.NodeUnknown
    ELSE IF key # 0 THEN extract_base_name(DictGet(metadata, keys[key]))
    ELSE Lit.Node \o NatToStr(hash_of[metadata])
UnifiedNodeKeys == <<"hostname", "host.name", "node.name", "k8s.pod.name", "pod.name">>
UnifiedExtractNode(metadata, hash_of) ==
    UnifiedNodeOf(metadata, hash_of, UnifiedNodeKeys, FirstTag(metadata, UnifiedNodeKeys))

\* The metadata of the services: the arguments of _extract_node.
ServiceMetadata(aggregator) ==
    {aggregator.service_metadata[i].v : i \in 1..Len(aggregator.service_metadata)}

\* node_services[node].add(service), with the node's set created at its first use.
AddToNode(node_services, node, service) ==
    DictPut(node_services, node, DictGetOr(node_services, node, {}) \cup {service})

\* _generate_deployment, lines 172-177: node -> services, in the order of first use.
GroupByNode(service_metadata, hash_of) ==
    FoldLeft(LAMBDA acc, e : AddToNode(acc, UnifiedExtractNode(e.v, hash_of), e.k),
             EmptyDict, service_metadata)

\* _generate_deployment, lines 198-205: the Manifestation of the service's Component.
Manifest(f, artifact, service) ==
    IF DictHas(f.reg.component_ids, service)
    THEN [SubElement(f, artifact.elem, "manifestation",
            <<Attr("xmi:type", A("uml:Manifestation")),
              Attr("xmi:id", Uuid(f.uuid + 1)),
              Attr("name", Lit.manifest \o Fmt(service)),
              Attr("supplier", DictGet(f.reg.component_ids, service)),
              Attr("client", artifact.id)>>)
          EXCEPT !.uuid = @ + 1]
    ELSE f

\* _generate_deployment, lines 192-211: the Artifact of one service, its
\* Manifestation of the Component and its Deployment on the Node.
DeployService(f, deployment_pkg, node_id, service) ==
    Let(create_packaged_element(f, deployment_pkg, "Artifact",
                                Fmt(service) \o Lit.artifact, EmptyDict), LAMBDA a :
        create_packaged_element(
            Manifest([a EXCEPT !.reg.artifact_ids = DictPut(@, service, a.ret.id)],
                     a.ret, service),
            deployment_pkg, "Deployment", Lit.deploy \o Fmt(service),
            <<Attr("location", node_id), Attr("deployedArtifact", a.ret.id)>>))

\* _generate_deployment, lines 180-184: one Node for each node name, sorted.
AddNodes(f, deployment_pkg, node_names) ==
    FoldLeft(LAMBDA acc, node_name :
                Let(create_packaged_element(acc, deployment_pkg, "Node", node_name, EmptyDict),
                    LAMBDA n : [n EXCEPT !.reg.node_ids = DictPut(@, node_name, n.ret.id)]),
             f, Sorted(node_names))

\* _generate_deployment, lines 187-211: the services of each node, sorted.
DeployServices(f, deployment_pkg, node_services) ==
    FoldLeft(LAMBDA acc, ns :
        Then(acc, LAMBDA a :
            IF SortedRaises(ns.v) THEN Raise(a, "TypeError")
            ELSE FoldLeft(LAMBDA acc2, service :
                    DeployService(acc2, deployment_pkg, DictGet(acc2.reg.node_ids, ns.k), service),
                    a, Sorted(ns.v))),
        f, node_services)

generate_deployment(f, model, aggregator, hash_of) ==
    Let(create_package(f, model, Lit.DeploymentPkg), LAMBDA p :
    Let(GroupByNode(aggregator.service_metadata, hash_of), LAMBDA node_services :
        DeployServices(AddNodes(p, p.ret.elem, DictKeySet(node_services)),
                       p.ret.elem, node_services)))

RECURSIVE SortByStartTime(_)
\* sorted(self.spans, key=lambda s: s.start_time): a stable sort.
SortByStartTime(spans) ==
    IF spans = <<>> THEN <<>>
    ELSE Let(CHOOSE i \in 1..Len(spans) :
                /\ \A j \in 1..Len(spans) : spans[i].start_time <= spans[j].start_time
                /\ \A j \in 1..(i - 1) : spans[j].start_time # spans[i].start_time,
             LAMBDA i : <<spans[i]>> \o SortByStartTime(SubSeq(spans, 1, i - 1)
                                                        \o SubSeq(spans, i + 1, Len(spans))))

\* Mutant of get_spans_sorted_by_time: the spans in the order of the input.
get_spans_in_input_order(trace) == trace.spans

\* Trace.get_spans_sorted_by_time
get_spans_sorted_by_time(trace) == SortByStartTime(trace.spans)

\* The set of Trace.get_all_service_names, which sorts it.
ServiceNames(trace) == {get_service_name(trace, trace.spans[i]) : i \in 1..Len(trace.spans)}

\* The dict span_to_service of the sequence builders: span id -> service of the
\* last span with that id.
SpanToService(trace, sorted_spans) ==
    FoldLeft(LAMBDA acc, span : DictPut(acc, span.span_id, get_service_name(trace, span)),
             EmptyDict, sorted_spans)

\* The parent service the sequence builders find for a span, None for none.
ParentServiceOf(span_to_service, parent_span_id) ==
    IF Truthy(parent_span_id) /\ DictHas(span_to_service, parent_span_id)
    THEN DictGet(span_to_service, parent_span_id)
    ELSE NoneName
ParentService(span_to_service, span) ==
    ParentServiceOf(span_to_service, get_parent_span_id(span))

\* The sequence builders make a message for a span whose parent is of another
\* service, when both services have a lifeline.
HasMessage(lifeline_ids, parent_service, current_service) ==
    /\ NameTruthy(parent_service) /\ parent_service # current_service
    /\ DictHas(lifeline_ids, parent_service) /\ DictHas(lifeline_ids, current_service)

\* _generate_sequences, lines 277-299: the two occurrences and the Message.
UnifiedMessageElements(f, interaction, n, clean_op, from_lifeline, to_lifeline, target_ops) ==
    Let(SubElementWithId(f, interaction, "fragment",
            <<Attr("xmi:type", A("uml:MessageOccurrenceSpecification"))>>,
            <<Attr("name", Lit.msg \o n \o Lit.send), Attr("covered", from_lifeline)>>),
        LAMBDA s :
    Let(SubElementWithId(s, interaction, "fragment",
            <<Attr("xmi:type", A("uml:MessageOccurrenceSpecification"))>>,
            <<Attr("name", Lit.msg \o n \o Lit.recv), Attr("covered", to_lifeline)>>),
        LAMBDA r :
        SubElementWithId(r, interaction, "message", EmptyDict,
            <<Attr("name", clean_op), Attr("messageSort", A("synchCall")),
              Attr("sendEvent", s.ret.id), Attr("receiveEvent", r.ret.id)>>
            \o (IF DictHas(target_ops, clean_op)
                THEN <<Attr("signature", DictGet(target_ops, clean_op))>> ELSE <<>>))))

\* _generate_sequences, lines 265-312: the message of one span; lifeline_ids and
\* msg_counter are the locals of the loop, kept in the frame.
UnifiedMessageOf(f, interaction, span, parent_service, current_service) ==
    IF HasMessage(f.lifeline_ids, parent_service, current_service)
    THEN Let(UnifiedMessageElements(f, interaction, NatToStr(f.msg_counter),
                 extract_simple_operation_name(span.operation_name),
                 DictGet(f.lifeline_ids, parent_service),
                 DictGet(f.lifeline_ids, current_service),
                 DictGetOr(f.reg.operation_ids, current_service, EmptyDict)),
             LAMBDA m :
                [m EXCEPT !.reg.message_ids =
                              Append(@, <<m.ret.id, span.duration,
                                          DictGetOr(span.tags, "span.kind", <<>>)
                                              = <<"p", "r", "o", "d", "u", "c", "e", "r">>>>),
                          !.msg_counter = @ + 1])
    ELSE f
UnifiedMessage(f, interaction, trace, span_to_service, span) ==
    UnifiedMessageOf(f, interaction, span, ParentService(span_to_service, span),
                     get_service_name(trace, span))

\* _generate_sequences, lines 242-254: a lifeline for each service, sorted.
UnifiedLifelines(f, interaction, services) ==
    FoldLeft(LAMBDA acc, service :
                Let(SubElementWithId(acc, interaction, "lifeline", EmptyDict,
                                     <<Attr("name", service)>>),
                    LAMBDA l : [l EXCEPT !.lifeline_ids = DictPut(@, service, l.ret.id)]),
             f, Sorted(services))

\* _generate_sequences, lines 257-312: the messages of the spans in order of time.
UnifiedMessages(f, interaction, trace, sorted_spans, span_to_service) ==
    FoldLeft(LAMBDA acc, span : UnifiedMessage(acc, interaction, trace, span_to_service, span),
             f, sorted_spans)

\* _generate_sequences, lines 229-312: the Interaction of a trace.
UnifiedInteraction(f, usecase, trace, trace_name) ==
    Let([SubElementWithId(f, usecase, "ownedBehavior",
            <<Attr("xmi:type", A("uml:Interaction"))>>,
            <<Attr("name", trace_name \o Lit.Interaction)>>)
         EXCEPT !.lifeline_ids = EmptyDict, !.msg_counter = 0], LAMBDA b :
    Let([b EXCEPT !.reg.interaction_ids = DictPut(@, trace_name, b.ret.id)], LAMBDA r :
    Let(get_spans_sorted_by_time(trace), LAMBDA sorted_spans :
        IF SortedRaises(ServiceNames(trace)) THEN Raise(r, "TypeError")
        ELSE UnifiedMessages(UnifiedLifelines(r, b.ret.elem, ServiceNames(trace)),
                             b.ret.elem, trace, sorted_spans,
                             SpanToService(trace, sorted_spans)))))

\* _generate_sequences, lines 221-312: the UseCase and the Interaction of trace i.
UnifiedUseCase(f, usecases_pkg, trace, trace_name) ==
    Let(create_packaged_element(f, usecases_pkg, "UseCase", trace_name, EmptyDict), LAMBDA u :
        UnifiedInteraction(u, u.ret.elem, trace, trace_name))
UnifiedSequence(f, usecases_pkg, trace, i) ==
    UnifiedUseCase(f, usecases_pkg, trace,
                   IF NameTruthy(trace.source_name) THEN trace.source_name
                   ELSE Lit.Trace \o NatToStr(i))

generate_sequences(f, model, traces) ==
    Let(create_package(f, model, Lit.UseCases), LAMBDA p :
        FoldLeft(LAMBDA acc, i :
                    Then(acc, LAMBDA a : UnifiedSequence(a, p.ret.elem, traces[i], i)),
                 p, [i \in 1..Len(traces) |-> i]))

\* _apply_marte_stereotypes: RtUnit, GaExecHost, GaAnalysisContext and PaStep for the
\* entries of the registries.
ApplyToAll(f, Apply(_, _), entries) == FoldLeft(Apply, f, entries)
apply_marte_stereotypes(f) ==
    ApplyToAll(
        ApplyToAll(
            ApplyToAll(
                ApplyToAll(f, LAMBDA acc, e : apply_rt_unit(acc, e.v), f.reg.component_ids),
                LAMBDA acc, e : apply_ga_exec_host(acc, e.v), f.reg.node_ids),
            LAMBDA acc, e : apply_ga_analysis_context(acc, e.v), f.reg.interaction_ids),
        LAMBDA acc, m : apply_pa_step(acc, m[1], m[2], m[3]), f.reg.message_ids)

\* Mutant of UnifiedDocument: no clear(); the registries keep the entries of the
\* calls before.
UnifiedDocumentNoClear(f, self, model_name) ==
    Let(create_xmi_document(f, self.xmi_writer, model_name),
        LAMBDA d : IF self.include_marte
                   THEN add_profile_application(d, get_model_element(d)) ELSE d)

\* Mutant of UnifiedDocument: message_ids.clear() is missing.
UnifiedDocumentKeepMessages(f, self, model_name) ==
    Let(create_xmi_document([f EXCEPT !.reg = [EmptyRegistries EXCEPT
                                                  !.message_ids = f.reg.message_ids]],
                            self.xmi_writer, model_name),
        LAMBDA d : IF self.include_marte
                   THEN add_profile_application(d, get_model_element(d)) ELSE d)

\* generate, lines 71-84: the six clear() and the document with, for MARTE, the
\* application of the profile.
UnifiedDocument(f, self, model_name) ==
    Let(create_xmi_document([f EXCEPT !.reg = EmptyRegistries], self.xmi_writer, model_name),
        LAMBDA d : IF self.include_marte
                   THEN add_profile_application(d, get_model_element(d)) ELSE d)

\* generate, lines 68-105: the body of the try statement.
UnifiedBody(self, traces, model_name, uuid, map, hash_of) ==
    Let(TraceAggregator(traces), LAMBDA aggregator :
        LET f0 == [doc |-> <<>>, uuid |-> uuid, exc |-> None, ret |-> None,
                   reg |-> self.reg, created_deps |-> {}, lifeline_ids |-> EmptyDict,
                   msg_counter |-> 0]
            Components(f) == generate_components(f, get_model_element(f), aggregator)
            Deployment(f) == generate_deployment(f, get_model_element(f), aggregator, hash_of)
            Sequences(f) == generate_sequences(f, get_model_element(f), traces)
            Marte(f) == IF self.include_marte THEN apply_marte_stereotypes(f) ELSE f
            ToString(f) == document_to_string(f, self.xmi_writer, map)
        IN IF AnalyzeRaises(aggregator) THEN Raise(f0, "TypeError")
           ELSE Then(Then(Then(Then(Then(UnifiedDocument(f0, self, model_name), Components),
                                    Deployment), Sequences), Marte), ToString))

\* generate: '' for no traces and for an exception in the body, else the document;
\* with the generator's registries and the number of identifiers after the call.
UnifiedGenerate(self, traces, model_name, uuid, map, hash_of) ==
    IF traces = <<>>
    THEN [result |-> EmptyStr, raised |-> None, caught |-> None, self |-> self, uuid |-> uuid]
    ELSE Let(UnifiedBody(self, traces, model_name, uuid, map, hash_of), LAMBDA f :
             [result |-> Returned(f), raised |-> Propagated(f), caught |-> f.exc,
              self |-> [self EXCEPT !.reg = f.reg],
              uuid |-> f.uuid])

---------------------------------------------------------------------------
(* generators/deployment_diagram_generator.py *)

\* DeploymentDiagramGenerator.__init__
DeploymentDiagramGenerator(xmi_format, map) ==
    GeneratorInit("DeploymentDiagramGenerator", XmiFormat(xmi_format), map)

\* metadata.get(key) is true
HasTag(metadata, key) == DictHas(metadata, key) /\ NameTruthy(DictGet(metadata, key))

\* DeploymentDiagramGenerator._extract_node
DeploymentExtractNode(metadata, hash_of) ==
    IF metadata = EmptyDict THEN Lit.NodeUnknown
    ELSE IF HasTag(metadata, "pod.name") THEN extract_base_name(DictGet(metadata, "pod.name"))
    ELSE IF HasTag(metadata, "k8s.pod.name")
         THEN extract_base_name(DictGet(metadata, "k8s.pod.name"))
    ELSE IF HasTag(metadata, "container.name")
         THEN extract_base_name(DictGet(metadata, "container.name"))
    ELSE IF HasTag(metadata, "container.id")
         THEN Lit.Container \o
              (IF Len(DictGet(metadata, "container.id")) > 12
               THEN Take(DictGet(metadata, "container.id"), 12)
               ELSE DictGet(metadata, "container.id"))
    ELSE IF HasTag(metadata, "hostname") THEN DictGet(metadata, "hostname")
    ELSE IF HasTag(metadata, "instance.id") THEN DictGet(metadata, "instance.id")
    ELSE IF HasTag(metadata, "host.name") THEN DictGet(metadata, "host.name")
    ELSE IF HasTag(metadata, "node.name") THEN DictGet(metadata, "node.name")
    ELSE IF HasTag(metadata, "host.ip") THEN Lit.Host \o DictGet(metadata, "host.ip")
    ELSE Lit.Node \o NatToStr(hash_of[metadata])

\* _find_node_for_service: the first node of the dict that has the service, else None.
FirstNodeAt(node_services, at) ==
    IF at = {} THEN NoneName ELSE node_services[CHOOSE i \in at : \A j \in at : i <= j].k
find_node_for_service(service, node_services) ==
    FirstNodeAt(node_services, {i \in 1..Len(node_services) : service \in node_services[i].v})

\* _create_communication_path: the CommunicationPath and its two ends.
create_communication_path(f, model, path_name, source_node_id, target_node_id) ==
    Let(create_packaged_element(f, model, "CommunicationPath", path_name, EmptyDict), LAMBDA p :
        SubElementWithId(
            SubElementWithId(p, p.ret.elem, "ownedEnd", EmptyDict,
                             <<Attr("type", source_node_id)>>),
            p.ret.elem, "ownedEnd", EmptyDict, <<Attr("type", target_node_id)>>))

\* generate_xmi, lines 81-91: the Artifact of a service and its Deployment on the node.
DeployArtifact(f, model, node_name, node_id, service) ==
    Let(create_packaged_element(f, model, "Artifact", service, EmptyDict), LAMBDA a :
        create_packaged_element(a, model, "Deployment",
            node_name \o Lit.deploys \o Fmt(service),
            <<Attr("location", node_id), Attr("deployedArtifact", a.ret.id)>>))

\* generate_xmi, lines 72-91: the nodes with the artifacts deployed on them.
DeployNodes(f, model, node_services, node_order) ==
    FoldLeft(LAMBDA acc, ns :
        Let(create_packaged_element(acc, model, "Node", ns.k, EmptyDict), LAMBDA n :
            FoldLeft(LAMBDA acc2, service : DeployArtifact(acc2, model, ns.k, n.ret.id, service),
                     [n EXCEPT !.node_ids = DictPut(@, ns.k, n.ret.id)],
                     SelectSeqBy(node_order, ns.v))),
        f, node_services)

\* generate_xmi, lines 104-120: the CommunicationPath between the nodes of two services,
\* when neither direction has one.
ConnectPair(f, model, from_node, to_node) ==
    IF /\ NameTruthy(from_node) /\ NameTruthy(to_node) /\ from_node # to_node
       /\ (from_node \o Lit.to \o to_node) \notin f.created_paths
       /\ (to_node \o Lit.to \o from_node) \notin f.created_paths
       /\ DictHas(f.node_ids, from_node) /\ DictHas(f.node_ids, to_node)
    THEN [create_communication_path(f, model, from_node \o Lit.to \o to_node,
              DictGet(f.node_ids, from_node), DictGet(f.node_ids, to_node))
          EXCEPT !.created_paths = @ \cup {from_node \o Lit.to \o to_node}]
    ELSE f

\* generate_xmi, lines 94-120: one CommunicationPath for each pair of nodes joined by
\* a dependency, whatever its direction.
ConnectNodes(f, model, dependencies, node_services, dep_orders) ==
    FoldLeft(LAMBDA acc, dep :
        FoldLeft(LAMBDA acc2, to_service :
                    ConnectPair(acc2, model, find_node_for_service(dep.k, node_services),
                                find_node_for_service(to_service, node_services)),
                 acc, SelectSeqBy(dep_orders[dep.k], dep.v)),
        f, dependencies)

\* generate_xmi, lines 58-67: node -> services, in the order of first use.
DeploymentGroupByNode(service_metadata, hash_of) ==
    FoldLeft(LAMBDA acc, e : AddToNode(acc, DeploymentExtractNode(e.v, hash_of), e.k),
             EmptyDict, service_metadata)

\* generate_xmi, lines 72-120: the nodes and the paths.
DeploymentElements(f, model, aggregator, node_services, node_order, dep_orders) ==
    ConnectNodes(DeployNodes(f, model, node_services, node_order), model,
                 aggregator.service_dependencies, node_services, dep_orders)

\* generate_xmi, lines 46-128: the body of the try statement; node_order is the order
\* in which this run meets the members of the sets of a node's services (no two of
\* which share a member) and dep_orders the order in which it meets the dependencies
\* of each service.
DeploymentBody(self, traces, uuid, map, hash_of, node_order, dep_orders) ==
    Let(TraceAggregator(traces), LAMBDA aggregator :
        LET f0 == [doc |-> <<>>, uuid |-> uuid, exc |-> None, ret |-> None,
                   node_ids |-> EmptyDict, created_paths |-> {}]
            model_name == IF NameTruthy(traces[1].source_name)
                          THEN traces[1].source_name \o Lit.Deployment
                          ELSE Lit.DeploymentDiagram
        IN IF AnalyzeRaises(aggregator) THEN Raise(f0, "TypeError")
           ELSE Let(create_xmi_document(f0, self.xmi_writer, model_name), LAMBDA d :
                    document_to_string(
                        DeploymentElements(d, get_model_element(d), aggregator,
                            DeploymentGroupByNode(aggregator.service_metadata, hash_of),
                            node_order, dep_orders),
                        self.xmi_writer, map)))

\* DeploymentDiagramGenerator.generate_xmi
DeploymentGenerateXmi(self, traces, uuid, map, hash_of, node_order, dep_orders) ==
    IF traces = <<>>
    THEN [result |-> EmptyStr, raised |-> None, caught |-> None, uuid |-> uuid]
    ELSE Let(DeploymentBody(self, traces, uuid, map, hash_of, node_order, dep_orders),
             LAMBDA f : [result |-> Returned(f), raised |-> Propagated(f), caught |-> f.exc,
                         uuid |-> f.uuid])

---------------------------------------------------------------------------
(* generators/sequence_diagram_generator.py *)

\* SequenceDiagramGenerator.__init__
SequenceDiagramGenerator(xmi_format, map) ==
    GeneratorInit("SequenceDiagramGenerator", XmiFormat(xmi_format), map)

\* _create_message: the two occurrence fragments, the Message and, for a duration
\* above zero, its comment.
MessageElements(f, interaction, message_name, operation_name, from_lifeline_id, to_lifeline_id) ==
    Let(SubElementWithId(f, interaction, "fragment",
            <<Attr("xmi:type", A("uml:MessageOccurrenceSpecification"))>>,
            <<Attr("name", message_name \o Lit.send), Attr("covered", from_lifeline_id)>>),
        LAMBDA s :
    Let(SubElementWithId(s, interaction, "fragment",
            <<Attr("xmi:type", A("uml:MessageOccurrenceSpecification"))>>,
            <<Attr("name", message_name \o Lit.receive), Attr("covered", to_lifeline_id)>>),
        LAMBDA r :
        SubElementWithId(r, interaction, "message", EmptyDict,
            <<Attr("name", operation_name), Attr("messageSort", A("synchCall")),
              Attr("sendEvent", s.ret.id), Attr("receiveEvent", r.ret.id)>>)))
create_message(f, interaction, message_name, operation_name, from_lifeline_id, to_lifeline_id, duration) ==
    Let(MessageElements(f, interaction, message_name, operation_name, from_lifeline_id,
                        to_lifeline_id), LAMBDA m :
        IF duration > 0
        THEN add_comment(m, m.ret.elem, <<"Duration: ", duration, "μs">>)
        ELSE m)

\* generate_xmi_for_trace, lines 76-81: a Class for each service.
SequenceClasses(f, model, services) ==
    FoldLeft(LAMBDA acc, service :
                Let(create_packaged_element(acc, model, "Class", service, EmptyDict),
                    LAMBDA c : [c EXCEPT !.class_ids = DictPut(@, service, c.ret.id)]),
             f, services)

\* generate_xmi_for_trace, lines 84-96: the Collaboration and a property of it for
\* each service.
SequenceCollaboration(f, model, model_name, services) ==
    Let(create_packaged_element(f, model, "Collaboration",
                                model_name \o Lit.Collaboration, EmptyDict), LAMBDA collab :
        FoldLeft(LAMBDA acc, service :
                    Let(create_owned_element(acc, collab.ret.elem, "ownedAttribute",
                            <<Attr("name", service),
                              Attr("type", DictGet(acc.class_ids, service))>>),
                        LAMBDA p : [p EXCEPT !.property_ids = DictPut(@, service, p.ret.id)]),
                 collab, services))

\* generate_xmi_for_trace, lines 99-109, and _create_lifeline: the Interaction and a
\* lifeline of it for each service.
SequenceInteraction(f, model, model_name, services) ==
    Let(create_packaged_element(f, model, "Interaction",
                                model_name \o Lit.Interaction, EmptyDict), LAMBDA inter :
        FoldLeft(LAMBDA acc, service :
                    Let(SubElementWithId(acc, inter.ret.elem, "lifeline", EmptyDict,
                            <<Attr("name", service),
                              Attr("represents", DictGet(acc.property_ids, service))>>),
                        LAMBDA l : [l EXCEPT !.lifeline_ids = DictPut(@, service, l.ret.id)]),
                 [inter EXCEPT !.interaction = inter.ret.elem], services))

\* generate_xmi_for_trace, lines 73-109
SequenceParticipants(f, model, model_name, services) ==
    SequenceInteraction(
        SequenceCollaboration(SequenceClasses(f, model, services), model, model_name, services),
        model, model_name, services)

\* generate_xmi_for_trace, lines 122-147: the message of one span.
SequenceMessageOf(f, span, parent_service, current_service) ==
    IF HasMessage(f.lifeline_ids, parent_service, current_service)
    THEN [create_message(f, f.interaction, Lit.msg \o NatToStr(f.msg_counter),
                         clean_operation_name(span.operation_name),
                         DictGet(f.lifeline_ids, parent_service),
                         DictGet(f.lifeline_ids, current_service), span.duration)
          EXCEPT !.msg_counter = @ + 1]
    ELSE f
SequenceMessage(f, trace, span_to_service, span) ==
    SequenceMessageOf(f, span, ParentService(span_to_service, span),
                      get_service_name(trace, span))

\* generate_xmi_for_trace, lines 112-147: the messages of the spans in order of time.
SequenceMessages(f, trace, sorted_spans, span_to_service) ==
    FoldLeft(LAMBDA acc, span : SequenceMessage(acc, trace, span_to_service, span),
             f, sorted_spans)

\* generate_xmi_for_trace, lines 73-152: the elements of the document d.
SequenceElements(d, self, map, trace, model_name, sorted_spans) ==
    IF SortedRaises(ServiceNames(trace)) THEN Raise(d, "TypeError")
    ELSE document_to_string(
            SequenceMessages(
                SequenceParticipants(d, get_model_element(d), model_name,
                                     Sorted(ServiceNames(trace))),
                trace, sorted_spans, SpanToService(trace, sorted_spans)),
            self.xmi_writer, map)

\* generate_xmi_for_trace, lines 64-152: the body of the try statement.
SequenceDocument(f0, self, map, trace, model_name) ==
    SequenceElements(create_xmi_document(f0, self.xmi_writer, model_name), self, map, trace,
                     model_name, get_spans_sorted_by_time(trace))
SequenceBody(self, trace, uuid, map) ==
    SequenceDocument([doc |-> <<>>, uuid |-> uuid, exc |-> None, ret |-> None,
                      class_ids |-> EmptyDict, property_ids |-> EmptyDict,
                      lifeline_ids |-> EmptyDict, interaction |-> 0, msg_counter |-> 0],
                     self, map, trace,
                     IF NameTruthy(trace.source_name)
                     THEN trace.source_name \o Lit.Sequence
                     ELSE Lit.SequenceDiagram)

\* generate_xmi_for_trace(trace, index); trace is <<>> for None and <<t>> for a trace t.
SequenceGenerateXmiForTrace(self, trace, index, uuid, map) ==
    IF trace = <<>>
    THEN [result |-> EmptyStr, raised |-> None, caught |-> None, uuid |-> uuid]
    ELSE Let(SequenceBody(self, trace[1], uuid, map), LAMBDA f :
             [result |-> Returned(f), raised |-> Propagated(f), caught |-> f.exc,
              uuid |-> f.uuid])

\* SequenceDiagramGenerator.generate_xmi: the diagram of the first trace.
SequenceGenerateXmi(self, traces, uuid, map) ==
    IF traces = <<>>
    THEN [result |-> EmptyStr, raised |-> None, caught |-> None, uuid |-> uuid]
    ELSE SequenceGenerateXmiForTrace(self, <<traces[1]>>, 0, uuid, map)

---------------------------------------------------------------------------
(* The aggregator as a state machine: TraceAggregator.__init__ and _analyze *)

NoTrace == Trace(<<>>, EmptyDict)

AggInit ==
    /\ cur_trace = NoTrace
    /\ agg = EmptyAgg
    /\ ti = 0
    /\ si = 1
    /\ pc = "analyze"

NoCall ==
    [op |-> "", self |-> 0, selector |-> Selector(""), traces |-> <<>>,
     env |-> <<>>, raised |-> None, caught |-> None, result |-> EmptyStr, uuid0 |-> 0]

GenInit ==
    /\ objects = <<>>
    /\ created_realizations = {}
    /\ uuids = 0
    /\ last = NoCall
    /\ calls = 0
    /\ namespace_map = EmptyDict

Init == AggInit /\ GenInit

\* _analyze: the for loop takes the next trace t of self.traces.
TakeTrace(t) ==
    /\ pc = "analyze"
    /\ si > Len(cur_trace.spans)
    /\ cur_trace' = t
    /\ ti' = ti + 1
    /\ si' = 1
    /\ UNCHANGED <<agg, pc, genVars>>

\* The next trace of a list of up to MaxTraces traces of plain spans.
NextPlainTrace ==
    /\ ti < MaxTraces
    /\ \E pm \in ProcessMaps : \E n \in 0..MaxSpans : \E ss \in [1..n -> PlainSpans] :
          TakeTrace(Trace(NumberSpans(ss), pm))

\* The only trace of a list of one trace of rich spans.
OnlyRichTrace ==
    /\ ti = 0
    /\ \E pm \in ProcessMaps : \E n \in 0..MaxSpans : \E ss \in [1..n -> RichSpans] :
          TakeTrace(Trace(ss, pm))

\* _analyze_trace: one iteration of the loop over trace.spans.
AnalyzeSpan ==
    /\ pc = "analyze"
    /\ si <= Len(cur_trace.spans)
    /\ agg' = analyze_span(agg, cur_trace, cur_trace.spans[si])
    /\ si' = si + 1
    /\ UNCHANGED <<cur_trace, ti, pc, genVars>>

\* _analyze: self.traces is exhausted.
Finish ==
    /\ pc = "analyze"
    /\ si > Len(cur_trace.spans)
    /\ pc' = "done"
    /\ UNCHANGED <<cur_trace, agg, ti, si, genVars>>

\* Aggregation of a list of up to MaxTraces traces of plain spans.
AggNext == NextPlainTrace \/ AnalyzeSpan \/ Finish
SpecAgg == Init /\ [][AggNext]_vars

\* Aggregation of one trace with arbitrary references.
ParentNext == OnlyRichTrace \/ AnalyzeSpan \/ Finish
SpecParent == Init /\ [][ParentNext]_vars

---------------------------------------------------------------------------
(* Properties of the aggregator *)

\* The owning service of a span as the specification states it: "unknown" when the
\* process id is missing or not in the trace's process map.
Owner(t, sp) ==
    IF sp.process_id \in {"", None} \/ sp.process_id \notin DictKeySet(t.processes)
    THEN unknown
    ELSE DictGet(t.processes, sp.process_id).service_name

ChildOfRefs(sp) == {i \in 1..Len(sp.references) : sp.references[i].ref_type = CHILD_OF}
FirstChildOf(sp) ==
    sp.references[CHOOSE i \in ChildOfRefs(sp) : \A j \in ChildOfRefs(sp) : i <= j]
SpansWithId(t, id) == {j \in 1..Len(t.spans) : t.spans[j].span_id = id}
FirstSpanWithId(t, id) ==
    t.spans[CHOOSE j \in SpansWithId(t, id) : \A k \in SpansWithId(t, id) : j <= k]

\* The span's first CHILD_OF reference names a span of the trace.
HasParentInTrace(t, sp) ==
    ChildOfRefs(sp) # {} /\ SpansWithId(t, FirstChildOf(sp).span_id) # {}
ParentOwner(t, sp) == Owner(t, FirstSpanWithId(t, FirstChildOf(sp).span_id))

\* The span calls across services: its parent is owned by another service.
CrossServiceCall(t, sp) == HasParentInTrace(t, sp) /\ ParentOwner(t, sp) # Owner(t, sp)

\* The same, for a first CHILD_OF reference that carries a non-empty span id.
CrossServiceCallById(t, sp) == CrossServiceCall(t, sp) /\ FirstChildOf(sp).span_id # ""

\* The aggregate's edges: <<caller, callee, operation>> and <<caller, callee>>.
CallTriples(a) ==
    UNION {UNION {{<<a.service_calls[i].k, a.service_calls[i].v[j].k, op>> :
                        op \in a.service_calls[i].v[j].v} :
                  j \in 1..Len(a.service_calls[i].v)} :
           i \in 1..Len(a.service_calls)}
DependencyPairs(a) ==
    UNION {{<<a.service_dependencies[i].k, callee>> : callee \in a.service_dependencies[i].v} :
           i \in 1..Len(a.service_dependencies)}

\* The step analyses the span cur_trace.spans[si].
IsAnalyzeSpan == pc = "analyze" /\ si <= Len(cur_trace.spans) /\ si' = si + 1

\* C5: The call map is a set union over all spans and traces: a span that calls across
\* services adds its operation to the set of its edge, and no operation of any edge
\* is removed or overwritten by a later span or trace.
C5_CallMapIsUnion ==
    [][/\ CallTriples(agg) \subseteq CallTriples(agg')
       /\ IsAnalyzeSpan /\ CrossServiceCallById(cur_trace, cur_trace.spans[si])
            => <<ParentOwner(cur_trace, cur_trace.spans[si]),
                 Owner(cur_trace, cur_trace.spans[si]),
                 cur_trace.spans[si].operation_name>> \in CallTriples(agg')]_vars

\* C5 witness: after a second trace whose spans all carry operation opY, the edge
\* api -> cart holds opX (from the first trace) and opY (from the second).
C5_Witness ==
    /\ pc = "done" /\ ti = 2
    /\ \A i \in 1..Len(cur_trace.spans) : cur_trace.spans[i].operation_name = opY
    /\ <<api, cart, opX>> \in CallTriples(agg)
    /\ <<api, cart, opY>> \in CallTriples(agg)

\* The edges the spans of trace t give under the edge rule Calls(t, sp).
TraceTriples(t, Calls(_, _)) ==
    {<<ParentOwner(t, t.spans[i]), Owner(t, t.spans[i]), t.spans[i].operation_name>> :
        i \in {j \in 1..Len(t.spans) : Calls(t, t.spans[j])}}
TracePairs(t, Calls(_, _)) ==
    {<<ParentOwner(t, t.spans[i]), Owner(t, t.spans[i])>> :
        i \in {j \in 1..Len(t.spans) : Calls(t, t.spans[j])}}

\* C6 as claimed: the edges recorded for a trace are exactly those of the spans whose
\* first CHILD_OF reference names a span of the trace owned by another service.
C6_EdgeIffFirstChildOfResolves ==
    pc = "done" =>
        /\ CallTriples(agg) = TraceTriples(cur_trace, CrossServiceCall)
        /\ DependencyPairs(agg) = TracePairs(cur_trace, CrossServiceCall)

\* C6 as amended: the same, where the first CHILD_OF reference carries a non-empty span
\* id; a first CHILD_OF reference with the empty id gives no edge, even when a span
\* of the trace has the empty id.
C6_EdgeIffFirstChildOfResolvesById ==
    pc = "done" =>
        /\ CallTriples(agg) = TraceTriples(cur_trace, CrossServiceCallById)
        /\ DependencyPairs(agg) = TracePairs(cur_trace, CrossServiceCallById)

\* C6 witness: a span whose references are a FOLLOWS_FROM to one span and then a
\* CHILD_OF to a span of another service has been recorded as an edge of that parent.
C6_Witness ==
    /\ pc = "done"
    /\ \E i \in 1..Len(cur_trace.spans) :
        LET sp == cur_trace.spans[i] IN
        /\ Len(sp.references) = 2
        /\ sp.references[1].ref_type = FOLLOWS_FROM
        /\ sp.references[1].span_id # sp.references[2].span_id
        /\ CrossServiceCallById(cur_trace, sp)
        /\ <<ParentOwner(cur_trace, sp), Owner(cur_trace, sp), sp.operation_name>>
                \in CallTriples(agg)

\* C7: Whenever a trace has been analysed, the owner of each of its spans ("unknown"
\* for a missing or unmapped process id) is in the service set, every service of the
\* set has an operation set, and every caller and callee of the dependency map and
\* of the call map is in the service set; the service set never loses a service.
C7_ServicesCovered ==
    /\ [](si > Len(cur_trace.spans) =>
            /\ \A i \in 1..Len(cur_trace.spans) :
                    Owner(cur_trace, cur_trace.spans[i]) \in agg.all_services
            /\ \A s \in agg.all_services : DictHas(agg.service_operations, s)
            /\ \A e \in CallTriples(agg) : e[1] \in agg.all_services /\ e[2] \in agg.all_services
            /\ \A e \in DependencyPairs(agg) :
                    e[1] \in agg.all_services /\ e[2] \in agg.all_services)
    /\ [][agg.all_services \subseteq agg'.all_services]_vars

\* C7 witness: after a second trace, the implicit service "unknown" is in the set as
\* the caller of an edge, beside a service seen in the first trace only.
C7_Witness ==
    /\ pc = "done" /\ ti = 2
    /\ \E e \in CallTriples(agg) : e[1] = unknown
    /\ \E s \in agg.all_services :
          \A i \in 1..Len(cur_trace.spans) : Owner(cur_trace, cur_trace.spans[i]) # s

\* The tags of the process owning the span ({} when the span has no mapped process).
OwnerTags(t, sp) ==
    IF sp.process_id \in {"", None} \/ sp.process_id \notin DictKeySet(t.processes)
    THEN EmptyDict
    ELSE DictGet(t.processes, sp.process_id).tags
MetadataOf(a, s) == DictGetOr(a.service_metadata, s, EmptyDict)

\* C8: Analysing a span gives its service's metadata every tag of the owning process,
\* with the process's value (the span processed last wins); a key the process does not
\* set keeps its earlier value, and the metadata of other services is unchanged.
C8_MetadataLastWins ==
    [][IsAnalyzeSpan =>
        LET sp == cur_trace.spans[si]
            tags == OwnerTags(cur_trace, sp)
        IN \A s \in agg'.all_services \cup DictKeySet(agg.service_metadata)
                      \cup DictKeySet(agg'.service_metadata) :
            /\ DictKeySet(MetadataOf(agg', s)) =
                    DictKeySet(MetadataOf(agg, s))
                        \cup (IF s = Owner(cur_trace, sp) THEN DictKeySet(tags) ELSE {})
            /\ \A key \in DictKeySet(MetadataOf(agg', s)) :
                    DictGet(MetadataOf(agg', s), key) =
                        IF s = Owner(cur_trace, sp) /\ DictHas(tags, key)
                        THEN DictGet(tags, key)
                        ELSE DictGet(MetadataOf(agg, s), key)]_vars

\* C8 witness: api's hostname is h2, set by the process that owns its last span, while
\* its pod.name is still the one set by an earlier process that has it.
C8_Witness ==
    /\ pc = "done"
    /\ DictHas(agg.service_metadata, api)
    /\ DictKeys(DictGet(agg.service_metadata, api)) = <<"hostname", "pod.name">>
    /\ DictGet(DictGet(agg.service_metadata, api), "hostname") = h2
    /\ DictGet(DictGet(agg.service_metadata, api), "pod.name") = podc

---------------------------------------------------------------------------
(* Inputs of the builders *)

\* A process whose service name is a JSON null.
NoneService == Process(NoneName, <<Tag("hostname", h1)>>)
t1 == <<"t", "1">>

SpanAt(span_id, operation_name, process_id, references, start_time, duration) ==
    [Span(span_id, operation_name, process_id, references)
     EXCEPT !.start_time = start_time, !.duration = duration]
Named(trace, source_name) == [trace EXCEPT !.source_name = source_name]

\* api calls cart.
CallTrace ==
    Trace(<<Span("s1", opX, "p1", <<>>),
            SpanAt("s2", opY, "p2", <<Reference(CHILD_OF, "s1")>>, 0, 1500)>>,
          <<Proc("p1", Process(api, <<Tag("hostname", h1)>>)),
            Proc("p2", Process(cart, <<Tag("hostname", h2), Tag("pod.name", podc)>>))>>)

\* api and cart both call db, with two operations; db has no tags; the spans are not in the order of their start times; api has two
\* operations of one simple name, the second on a span whose parent is api's own;
\* the span s4 of db starts before its parent s2, at the time of s1.
FanTrace ==
    Named(Trace(<<SpanAt("s3", opX, "p3", <<Reference(CHILD_OF, "s1")>>, 2, 0),
                  SpanAt("s4", opY, "p3", <<Reference(CHILD_OF, "s2")>>, 0, 0),
                  SpanAt("s1", opX, "p1", <<>>, 0, 0),
                  SpanAt("s2", opX, "p2", <<Reference(FOLLOWS_FROM, "s1")>>, 1, 0),
                  SpanAt("s5", opZ, "p1", <<Reference(CHILD_OF, "s1")>>, 4, 0)>>,
                <<Proc("p1", Process(api, <<Tag("hostname", h1)>>)),
                  Proc("p2", Process(cart, <<Tag("hostname", h2)>>)),
                  Proc("p3", Process(db, <<>>))>>),
          t1)

\* A trace with no spans.
EmptyTrace == Trace(<<>>, EmptyDict)

\* api has an operation that is None beside a named one, and is called by cart.
NoneOpTrace ==
    Trace(<<Span("s1", opX, "p2", <<>>),
            Span("s2", NoneName, "p1", <<Reference(CHILD_OF, "s1")>>),
            Span("s3", opY, "p1", <<Reference(CHILD_OF, "s1")>>)>>,
          <<Proc("p1", Process(api, <<Tag("hostname", h1)>>)),
            Proc("p2", Process(cart, <<>>))>>)

\* The only service is None.
NoneServiceTrace == Trace(<<Span("s1", opX, "p1", <<>>)>>, <<Proc("p1", NoneService)>>)

\* None is a service beside api.
MixedServiceTrace ==
    Trace(<<Span("s1", opX, "p1", <<>>), Span("s2", opX, "p2", <<Reference(CHILD_OF, "s1")>>)>>,
          <<Proc("p1", NoneService), Proc("p2", Process(api, <<>>))>>)

\* cart calls api by ManyOps operations o1, o2, ...: more than a view shows.
ManyOps == 21
ManySpanIds ==
    <<"m1", "m2", "m3", "m4", "m5", "m6", "m7", "m8", "m9", "m10", "m11",
      "m12", "m13", "m14", "m15", "m16", "m17", "m18", "m19", "m20", "m21", "m22">>
ManyOpsTrace ==
    Trace(<<Span("s0", opX, "p2", <<>>)>>
          \o [i \in 1..ManyOps |->
                Span(ManySpanIds[i], <<"o">> \o NatToStr(i), "p1",
                     <<Reference(CHILD_OF, "s0")>>)],
          <<Proc("p1", Process(api, <<Tag("hostname", h1)>>)),
            Proc("p2", Process(cart, <<>>))>>)

GenTraces ==
    {CallTrace, FanTrace, EmptyTrace, NoneOpTrace, NoneServiceTrace, MixedServiceTrace,
     ManyOpsTrace}

\* The trace lists given to a builder: up to MaxGenTraces traces.
MaxGenTraces == 1
GenTraceLists == SeqsUpTo(GenTraces, MaxGenTraces)

\* api calls cart and db, each by the same two operations.
PairTrace ==
    Trace(<<Span("s1", opX, "p1", <<>>),
            Span("s2", opX, "p2", <<Reference(CHILD_OF, "s1")>>),
            Span("s3", opY, "p2", <<Reference(CHILD_OF, "s1")>>),
            Span("s4", opY, "p3", <<Reference(CHILD_OF, "s1")>>),
            Span("s5", opX, "p3", <<Reference(CHILD_OF, "s1")>>)>>,
          <<Proc("p1", Process(api, <<Tag("hostname", h1)>>)),
            Proc("p2", Process(cart, <<Tag("hostname", h2)>>)),
            Proc("p3", Process(db, <<>>))>>)

\* api calls db by CappedOps operations, more than an Interface lists: by opY and by
\* GET /c written with one, two, ... blanks after the verb, which are as many names
\* with one clean name.
CappedOps == 16
CappedNames == [i \in 1..(CappedOps - 1) |-> Lit.GET \o [j \in 1..i |-> " "] \o <<"/", "c">>]
CapTrace ==
    Trace(<<Span("s0", opX, "p1", <<>>)>>
          \o [i \in 1..(CappedOps - 1) |->
                Span(ManySpanIds[i], CappedNames[i], "p3", <<Reference(CHILD_OF, "s0")>>)]
          \o <<Span(ManySpanIds[CappedOps], opY, "p3", <<Reference(CHILD_OF, "s0")>>)>>,
          <<Proc("p1", Process(api, <<Tag("hostname", h1)>>)),
            Proc("p3", Process(db, <<>>))>>)

\* The trace lists given to the component builder, whose document follows the order
\* of iteration of the set of the operations of a callee. The ManyOps operations of
\* ManyOpsTrace have ManyOps clean names, whose listings are more than can be
\* followed; CapTrace has a set of more than 15 operations with two clean names.
ComponentTraceLists == SeqsUpTo((GenTraces \ {ManyOpsTrace}) \cup {PairTrace}, MaxGenTraces)
CappedTraceLists == ComponentTraceLists \cup {<<CapTrace>>}

\* The tags of api name no node: its Node is named by the hash of the metadata.
ip == <<"1", "0">>
HashTrace ==
    Trace(<<Span("s1", opX, "p1", <<>>)>>, <<Proc("p1", Process(api, <<Tag("ip", ip)>>))>>)
HashTraceLists == {<<HashTrace>>}

\* api on the node a calls cart on the node b_to_a, and db on the node a_to_b calls api.
KeyedNodesTrace ==
    Named(Trace(<<SpanAt("s1", opX, "p1", <<>>, 0, 0),
                  SpanAt("s2", opY, "p2", <<Reference(CHILD_OF, "s1")>>, 1, 0),
                  SpanAt("s3", opX, "p3", <<>>, 2, 0),
                  SpanAt("s4", opX, "p1", <<Reference(CHILD_OF, "s3")>>, 3, 0)>>,
                <<Proc("p1", Process(api, <<Tag("hostname", <<"a">>)>>)),
                  Proc("p2", Process(cart, <<Tag("hostname", <<"b", "_", "t", "o", "_", "a">>)>>)),
                  Proc("p3", Process(db, <<Tag("hostname", <<"a", "_", "t", "o", "_", "b">>)>>))>>),
          t1)

\* api and cart, each on a node of its own, both call db and a, each on a node of its
\* own.
DependencyPairTrace ==
    Trace(<<Span("s1", opX, "p1", <<>>),
            Span("s2", opX, "p2", <<>>),
            Span("s3", opY, "p3", <<Reference(CHILD_OF, "s1")>>),
            Span("s4", opY, "p4", <<Reference(CHILD_OF, "s1")>>),
            Span("s5", opY, "p4", <<Reference(CHILD_OF, "s2")>>),
            Span("s6", opY, "p3", <<Reference(CHILD_OF, "s2")>>)>>,
          <<Proc("p1", Process(api, <<Tag("hostname", h1)>>)),
            Proc("p2", Process(cart, <<Tag("hostname", h2)>>)),
            Proc("p3", Process(db, <<Tag("hostname", <<"h", "3">>)>>)),
            Proc("p4", Process(<<"a">>, <<Tag("hostname", <<"h", "4">>)>>))>>)

\* The trace lists given to the deployment builder.
DeploymentTraceLists ==
    SeqsUpTo(GenTraces \cup {KeyedNodesTrace, DependencyPairTrace}, MaxGenTraces)

\* The span of cart is the child of the span of api whose id is '' (the id that
\* Span.from_dict gives a span without spanID).
EmptyIdTrace ==
    Trace(<<Span("", opX, "p1", <<>>),
            Span("s2", opY, "p2", <<Reference(CHILD_OF, "")>>)>>,
          <<Proc("p1", Process(api, <<Tag("hostname", h1)>>)),
            Proc("p2", Process(cart, <<Tag("hostname", h2)>>))>>)

\* The services a and a_to_a call each other.
svcA == <<"a">>
svcAtoA == <<"a", "_", "t", "o", "_", "a">>
MutualTrace ==
    Trace(<<SpanAt("s1", opX, "p1", <<>>, 0, 0),
            SpanAt("s2", opY, "p2", <<Reference(CHILD_OF, "s1")>>, 1, 0),
            SpanAt("s3", opX, "p1", <<Reference(CHILD_OF, "s2")>>, 2, 0)>>,
          <<Proc("p1", Process(svcA, <<Tag("hostname", h1)>>)),
            Proc("p2", Process(svcAtoA, <<Tag("hostname", h2)>>))>>)

\* Two spans share the id s1, the first of api and the later one of cart; the span s2
\* of db is a child of s1.
SharedIdTrace ==
    Named(Trace(<<SpanAt("s1", opX, "p1", <<>>, 0, 0),
                  SpanAt("s1", opX, "p2", <<>>, 1, 0),
                  SpanAt("s2", opY, "p3", <<Reference(CHILD_OF, "s1")>>, 2, 0)>>,
                <<Proc("p1", Process(api, <<Tag("hostname", h1)>>)),
                  Proc("p2", Process(cart, <<Tag("hostname", h2)>>)),
                  Proc("p3", Process(db, <<>>))>>),
          t1)

\* The traces given to the builders of sequences.
SeqTraces == GenTraces \cup {EmptyIdTrace, MutualTrace, SharedIdTrace}
SeqTraceLists == SeqsUpTo(SeqTraces, MaxGenTraces)

\* api calls cart with a producer span of 70 microseconds and cart calls api back with
\* a consumer span of 1005 microseconds.
TimedTrace ==
    Named(Trace(<<SpanAt("s1", opX, "p1", <<>>, 0, 0),
                  [SpanAt("s2", opY, "p2", <<Reference(CHILD_OF, "s1")>>, 1, 70)
                   EXCEPT !.tags = <<Tag("span.kind", <<"p", "r", "o", "d", "u", "c", "e", "r">>)>>],
                  [SpanAt("s3", opX, "p1", <<Reference(CHILD_OF, "s2")>>, 2, 1005)
                   EXCEPT !.tags = <<Tag("span.kind", <<"c", "o", "n", "s", "u", "m", "e", "r">>)>>]>>,
                <<Proc("p1", Process(api, <<Tag("hostname", h1)>>)),
                  Proc("p2", Process(cart, <<Tag("hostname", h2)>>))>>),
          t1)

\* The traces of files and the lists of one or two of them given to the unified
\* builder: JsonFileReader gives every trace of a file the name of the file, so two
\* traces of a list can have one source_name.
MaxFileTraces == 2
FileTraces == {Named(CallTrace, t1), FanTrace, TimedTrace, CallTrace, SharedIdTrace}
FileTraceLists == SeqsUpTo(FileTraces, MaxFileTraces) \ {<<>>}

\* The selectors given to a constructor: the two values, another str, and (for the
\* serializer, which takes a member) the two members.
StrSelectors == {Selector("papyrus"), Selector("magicdraw"), Selector("xml")}
Selectors == StrSelectors \cup XmiFormatMembers

\* The metadata for which _extract_node falls back on hash().
HashedMetadata(aggregator, ExtractNode(_, _)) ==
    {m \in ServiceMetadata(aggregator) :
        ExtractNode(m, [x \in {m} |-> 0]) # ExtractNode(m, [x \in {m} |-> 1])}

---------------------------------------------------------------------------
(* The builders as a state machine *)

MaxGenerators == 2
MaxCalls == 2

\* A constructor call: the new object is kept when the constructor returns.
Construct(op, selector, outcome) ==
    /\ Len(objects) < MaxGenerators
    /\ objects' = IF outcome.raised = None THEN Append(objects, outcome.value) ELSE objects
    /\ last' = [NoCall EXCEPT !.op = op, !.selector = selector, !.raised = outcome.raised,
                              !.self = IF outcome.raised = None THEN Len(objects) + 1 ELSE 0,
                              !.uuid0 = uuids]
    /\ namespace_map' = outcome.namespace_map
    /\ UNCHANGED <<created_realizations, uuids, calls, aggVars>>

NewXmiWriter ==
    \E x \in Selectors : Construct("XmiWriter", x, NewWriter(x, namespace_map))
NewComponentDiagramGenerator ==
    \E x \in StrSelectors :
        Construct("ComponentDiagramGenerator", x, ComponentDiagramGenerator(x, namespace_map))
NewDeploymentDiagramGenerator ==
    \E x \in StrSelectors :
        Construct("DeploymentDiagramGenerator", x, DeploymentDiagramGenerator(x, namespace_map))
NewSequenceDiagramGenerator ==
    \E x \in StrSelectors :
        Construct("SequenceDiagramGenerator", x, SequenceDiagramGenerator(x, namespace_map))
NewUnifiedXmiGenerator ==
    \E x \in StrSelectors : \E include_marte \in BOOLEAN :
        Construct("UnifiedXmiGenerator", x, UnifiedXmiGenerator(x, include_marte, namespace_map))

\* A builder call on the object g: what it returns and what it leaves behind; env is
\* what the run adds to the arguments of the deployment and the unified builder: the
\* values of hash() and the orders in which sets are iterated.  The orders of the
\* component builder show in its document only.
Called(op, g, traces, env, out) ==
    /\ calls' = calls + 1
    /\ uuids' = out.uuid
    /\ last' = [NoCall EXCEPT !.op = op, !.self = g, !.traces = traces, !.env = env,
                              !.raised = out.raised, !.caught = out.caught,
                              !.result = out.result, !.uuid0 = uuids]
    /\ UNCHANGED <<namespace_map, aggVars>>

\* The component builder also leaves the class attribute behind.
ComponentCalled(g, traces, env, out) ==
    /\ Called("generate_xmi", g, traces, env, out)
    /\ created_realizations' = out.created_realizations

\* The unified builder also leaves its registries behind.
UnifiedCalled(g, traces, env, out) ==
    /\ Called("generate", g, traces, env, out)
    /\ objects' = [objects EXCEPT ![g] = out.self]

\* The orders of iteration of a set of operation names, up to the places of names that
\* have one clean name: an Interface shows the clean names of list(provided_ops), so
\* two orders that differ only in the places of such names give one document, and one
\* of them stands for both. Names with clean names of their own take every order.
WithCleanNameOf(provided_ops, op) ==
    {o \in provided_ops : clean_operation_name(o) = clean_operation_name(op)}
FirstOfEachCleanName(provided_ops) ==
    {CHOOSE o \in WithCleanNameOf(provided_ops, op) : TRUE : op \in provided_ops}
RECURSIVE ListingOrders(_)
ListingOrders(provided_ops) ==
    IF provided_ops = {} THEN {<<>>}
    ELSE UNION {{<<op>> \o rest : rest \in ListingOrders(provided_ops \ {op})} :
                op \in FirstOfEachCleanName(provided_ops)}

\* The listings of clean names that the orders of ListingOrders give are those that all
\* the orders give, for every set of these names.
ListedNames == {opX, opY, CappedNames[2], <<"/", "c">>}
ListingOrdersGiveEveryListing ==
    \A provided_ops \in SUBSET ListedNames :
        {CleanOpsUncapped(op_order) : op_order \in ListingOrders(provided_ops)}
            = {CleanOpsUncapped(op_order) : op_order \in Orders(provided_ops)}

\* The sets of an aggregate whose order of iteration a builder depends on.
ServiceOrders(aggregator) == Orders(aggregator.all_services)
CategoryOrders(aggregator) ==
    IF NoneName \in aggregator.all_services THEN {<<>>}
    ELSE Let(categorize_services(aggregator.all_services), LAMBDA categorized_services :
             OrdersOfEach(DictKeySet(categorized_services),
                          LAMBDA category : DictGet(categorized_services, category)))
RECURSIVE ListingOrdersOfEach(_, _)
ListingOrdersOfEach(services, service_calls) ==
    IF services = {} THEN {[callee_service \in {} |-> <<>>]}
    ELSE LET service == CHOOSE callee_service \in services : TRUE
         IN {[callee_service \in DOMAIN orders \cup {service} |->
                 IF callee_service = service THEN op_order ELSE orders[callee_service]] :
             op_order \in ListingOrders(get_provided_operations(service, service_calls)),
             orders \in ListingOrdersOfEach(services \ {service}, service_calls)}
OperationOrders(aggregator) ==
    ListingOrdersOfEach(aggregator.all_services, aggregator.service_calls)
DependencyOrders(aggregator) ==
    OrdersOfEach(DictKeySet(aggregator.service_dependencies),
                 LAMBDA from_service : DictGet(aggregator.service_dependencies, from_service))

\* ComponentDiagramGenerator.generate_xmi(traces) on the generator objects[g].
ComponentGenerateFrom(lists) ==
    /\ calls < MaxCalls
    /\ \E g \in 1..Len(objects) : \E traces \in lists :
        /\ objects[g].cls = "ComponentDiagramGenerator"
        /\ \E cat_orders \in CategoryOrders(TraceAggregator(traces)) :
           \E svc_order \in ServiceOrders(TraceAggregator(traces)) :
           \E op_orders \in OperationOrders(TraceAggregator(traces)) :
             ComponentCalled(g, traces, <<>>,
                 ComponentGenerateXmi(objects[g], traces, created_realizations, uuids,
                                      namespace_map, cat_orders, svc_order, op_orders))
        /\ UNCHANGED objects
ComponentGenerate == ComponentGenerateFrom(ComponentTraceLists)
ComponentGenerateCapped == ComponentGenerateFrom(CappedTraceLists)

\* DeploymentDiagramGenerator.generate_xmi(traces)
DeploymentGenerateFrom(lists) ==
    /\ calls < MaxCalls
    /\ \E g \in 1..Len(objects) : \E traces \in lists :
        /\ objects[g].cls = "DeploymentDiagramGenerator"
        /\ \E node_order \in ServiceOrders(TraceAggregator(traces)) :
           \E dep_orders \in DependencyOrders(TraceAggregator(traces)) :
           \E hash_of \in [HashedMetadata(TraceAggregator(traces), DeploymentExtractNode)
                            -> HashValues] :
             Called("generate_xmi", g, traces, <<hash_of, node_order, dep_orders>>,
                    DeploymentGenerateXmi(objects[g], traces, uuids, namespace_map, hash_of,
                                          node_order, dep_orders))
        /\ UNCHANGED <<objects, created_realizations>>
DeploymentGenerate == DeploymentGenerateFrom(DeploymentTraceLists)

\* DeploymentDiagramGenerator.generate_xmi(traces) on a trace whose Node is named by
\* a hash
DeploymentGenerateHashed == DeploymentGenerateFrom(HashTraceLists)

\* SequenceDiagramGenerator.generate_xmi(traces)
SequenceGenerate ==
    /\ calls < MaxCalls
    /\ \E g \in 1..Len(objects) : \E traces \in SeqTraceLists :
        /\ objects[g].cls = "SequenceDiagramGenerator"
        /\ Called("generate_xmi", g, traces, <<>>,
                  SequenceGenerateXmi(objects[g], traces, uuids, namespace_map))
        /\ UNCHANGED <<objects, created_realizations>>

\* SequenceDiagramGenerator.generate_xmi_for_trace(trace, index), trace a Trace or None
SequenceGenerateForTrace ==
    /\ calls < MaxCalls
    /\ \E g \in 1..Len(objects) : \E trace \in SeqsUpTo(SeqTraces, 1) :
        /\ objects[g].cls = "SequenceDiagramGenerator"
        /\ Called("generate_xmi_for_trace", g, trace, <<>>,
                  SequenceGenerateXmiForTrace(objects[g], trace, 0, uuids, namespace_map))
        /\ UNCHANGED <<objects, created_realizations>>

\* UnifiedXmiGenerator.generate(traces, model_name)
UnifiedGenerateFrom(lists) ==
    /\ calls < MaxCalls
    /\ \E g \in 1..Len(objects) : \E traces \in lists :
       \E model_name \in {Lit.UnifiedModel, NoneName} :
        /\ objects[g].cls = "UnifiedXmiGenerator"
        /\ \E hash_of \in [HashedMetadata(TraceAggregator(traces), UnifiedExtractNode)
                            -> HashValues] :
             UnifiedCalled(g, traces, <<model_name, hash_of>>,
                           UnifiedGenerate(objects[g], traces, model_name, uuids,
                                           namespace_map, hash_of))
        /\ UNCHANGED created_realizations
UnifiedGenerateCall == UnifiedGenerateFrom(SeqTraceLists)

\* UnifiedXmiGenerator.generate(traces, model_name) on the traces of files
UnifiedGenerateFiles == UnifiedGenerateFrom(FileTraceLists)

\* UnifiedXmiGenerator.generate(traces, model_name) on a trace whose Node is named by
\* a hash
UnifiedGenerateHashed == UnifiedGenerateFrom(HashTraceLists)

\* The component builder: any generators, any calls.
CompNext == NewComponentDiagramGenerator \/ ComponentGenerate
SpecComp == Init /\ [][CompNext]_vars

\* The unified builder.
UniNext == NewUnifiedXmiGenerator \/ UnifiedGenerateCall
SpecUni == Init /\ [][UniNext]_vars

\* The unified builder on the traces of files, with up to MaxFileCalls calls.
MaxFileCalls == 1
FilesNext == NewUnifiedXmiGenerator \/ (calls < MaxFileCalls /\ UnifiedGenerateFiles)
SpecFiles == Init /\ [][FilesNext]_vars

\* The operation names given to clean_operation_name: None, and the concatenations of
\* up to MaxNameTokens pieces, which are two HTTP methods, the space, the underscore, a
\* letter and the slash.  The function is called up to MaxNameCalls times in a row.
MaxNameTokens == 4
MaxNameCalls == 2
NameTokens == {Lit.GET, Lit.PUT, <<" ">>, <<"_">>, <<"c">>, <<"/">>}
RECURSIVE Concat(_)
Concat(pieces) == IF pieces = <<>> THEN <<>> ELSE Head(pieces) \o Concat(Tail(pieces))
OperationNames == {NoneName} \cup {Concat(pieces) : pieces \in SeqsUpTo(NameTokens, MaxNameTokens)}

\* A call of clean_operation_name: env holds the argument and result what it returned.
CleanCalled(operation_name) ==
    /\ last' = [NoCall EXCEPT !.op = "clean_operation_name", !.env = <<operation_name>>,
                              !.result = clean_operation_name(operation_name)]
    /\ calls' = calls + 1
    /\ UNCHANGED <<objects, created_realizations, uuids, namespace_map, aggVars>>

\* clean_operation_name(x) for an operation name x.
CleanOperationName ==
    /\ last.op = ""
    /\ \E x \in OperationNames : CleanCalled(x)

\* clean_operation_name(y) for the name y the last call returned.
CleanAgain ==
    /\ last.op = "clean_operation_name"
    /\ calls < MaxNameCalls
    /\ CleanCalled(last.result)

\* The cleaning of an operation name, and of the result.
NamesNext == CleanOperationName \/ CleanAgain
SpecNames == Init /\ [][NamesNext]_vars

\* Every constructor and every builder, with up to MaxBuildCalls builder calls.
MaxBuildCalls == 1
BuildNext ==
    \/ NewXmiWriter
    \/ NewComponentDiagramGenerator
    \/ NewDeploymentDiagramGenerator
    \/ NewSequenceDiagramGenerator
    \/ NewUnifiedXmiGenerator
    \/ calls < MaxBuildCalls /\ ComponentGenerateCapped
    \/ calls < MaxBuildCalls /\ DeploymentGenerate
    \/ calls < MaxBuildCalls /\ SequenceGenerate
    \/ calls < MaxBuildCalls /\ SequenceGenerateForTrace
    \/ calls < MaxBuildCalls /\ UnifiedGenerateCall
SpecBuild == Init /\ [][BuildNext]_vars

\* One deployment or unified generator and the first call of it in a process, on a
\* trace whose Node is named by a hash (hash() is one function for a whole process).
HashNext ==
    \/ objects = <<>> /\ NewDeploymentDiagramGenerator
    \/ objects = <<>> /\ NewUnifiedXmiGenerator
    \/ calls = 0 /\ DeploymentGenerateHashed
    \/ calls = 0 /\ UnifiedGenerateHashed
SpecHash == Init /\ [][HashNext]_vars

---------------------------------------------------------------------------
(* Properties of the builders and of their documents *)

\* The value of the attribute key of element e of a document; <<>> when it has none.
AttrOf(doc, e, key) == DictGetOr(doc[e].attrs, key, <<>>)

\* The elements of a document with the xmi:type uml:<element_type>.
ElementsOfType(doc, element_type) ==
    {e \in 1..Len(doc) : AttrOf(doc, e, "xmi:type") = UmlType(element_type)}

\* The identifiers of the elements of a document.
IdsOf(doc) ==
    {AttrOf(doc, e, "xmi:id") : e \in {d \in 1..Len(doc) : DictHas(doc[d].attrs, "xmi:id")}}

\* The attributes that hold a cross-reference: the client and supplier of a Usage
\* (xmi:idref of its children) and of a Manifestation, the location and deployedArtifact
\* of a Deployment, the signature and events of a Message, the lifeline a fragment
\* covers, and the base_ reference of a stereotype application.
ReferenceKeys ==
    {"xmi:idref", "client", "supplier", "location", "deployedArtifact", "signature",
     "sendEvent", "receiveEvent", "covered", "base_BehavioredClassifier", "base_Classifier",
     "base_NamedElement"}

\* The identifiers a document uses as cross-references.
ReferencesOf(doc) ==
    UNION {{doc[e].attrs[a].v :
                a \in {b \in 1..Len(doc[e].attrs) : doc[e].attrs[b].k \in ReferenceKeys}} :
           e \in 1..Len(doc)}

\* The last call was the builder op of a generator of class cls.
LastCallOf(cls, op) == last.op = op /\ last.self # 0 /\ objects[last.self].cls = cls

\* C1: In the document the unified generator returns, every identifier used as a
\* cross-reference (Usage client/supplier, Manifestation supplier/client, Deployment
\* location/deployedArtifact, Message signature/sendEvent/receiveEvent, fragment covered,
\* base_ of a stereotype application) is the identifier of an element of the same
\* document.
C1_NoDanglingReferences ==
    (LastCallOf("UnifiedXmiGenerator", "generate") /\ last.result # EmptyStr)
        => ReferencesOf(last.result) \subseteq IdsOf(last.result)

\* C1 witness: a second call, after one that allocated identifiers, returns a document
\* with a Usage, a Manifestation, a Deployment, a Message with a signature and the
\* stereotype applications of the three kinds of base_ reference.
C1_Witness ==
    /\ LastCallOf("UnifiedXmiGenerator", "generate") /\ last.result # EmptyStr
    /\ calls = 2 /\ last.uuid0 > 0
    /\ \A key \in {"xmi:idref", "supplier", "location", "deployedArtifact", "signature",
                   "sendEvent", "covered", "base_BehavioredClassifier", "base_Classifier",
                   "base_NamedElement"} :
            \E e \in 1..Len(last.result) : DictHas(last.result[e].attrs, key)

\* The services another service calls in the input of a call.
Callees(aggregator) ==
    UNION {DictKeySet(aggregator.service_calls[i].v) : i \in 1..Len(aggregator.service_calls)}

\* The services that call the service callee.
CallersOf(aggregator, callee) ==
    {aggregator.service_calls[i].k :
        i \in {j \in 1..Len(aggregator.service_calls) :
                  callee \in DictKeySet(aggregator.service_calls[j].v)}}

\* The element an InterfaceRealization names as its client.
ClientOf(doc, r) ==
    {AttrOf(doc, c, "xmi:idref") :
        c \in {d \in 1..Len(doc) : doc[d].parent = r /\ doc[d].tag = "client"}}

\* The InterfaceRealization elements of a document whose client is the Component of
\* the service.
RealizationsOf(doc, service) ==
    {r \in ElementsOfType(doc, "InterfaceRealization") :
        \E c \in ElementsOfType(doc, "Component") :
            /\ AttrOf(doc, c, "name") = service
            /\ AttrOf(doc, c, "xmi:id") \in ClientOf(doc, r)}

\* C2: Every document generate_xmi of the component view returns has exactly one
\* InterfaceRealization for each service that another service calls in the input of
\* that call, whatever calls were made before in the process.
C2_OneRealizationPerCalledService ==
    (LastCallOf("ComponentDiagramGenerator", "generate_xmi") /\ last.result # EmptyStr)
        => \A service \in Callees(TraceAggregator(last.traces)) :
                Cardinality(RealizationsOf(last.result, service)) = 1

\* C3: In a document of the component view no two InterfaceRealization elements have
\* the same client: at most one for each callee, however many services call it.
C3_AtMostOneRealizationPerCallee ==
    (LastCallOf("ComponentDiagramGenerator", "generate_xmi") /\ last.result # EmptyStr)
        => \A r1, r2 \in ElementsOfType(last.result, "InterfaceRealization") :
                ClientOf(last.result, r1) = ClientOf(last.result, r2) => r1 = r2

\* C3 witness: db is called by two services and the document has one
\* InterfaceRealization of db.
C3_Witness ==
    /\ LastCallOf("ComponentDiagramGenerator", "generate_xmi") /\ last.result # EmptyStr
    /\ Cardinality(CallersOf(TraceAggregator(last.traces), db)) = 2
    /\ Cardinality(RealizationsOf(last.result, db)) = 1

\* The identifiers the registries of a unified generator hold.
RegistryIds(reg) ==
    {reg.component_ids[i].v : i \in 1..Len(reg.component_ids)}
    \cup UNION {{reg.operation_ids[i].v[j].v : j \in 1..Len(reg.operation_ids[i].v)} :
                i \in 1..Len(reg.operation_ids)}
    \cup {reg.artifact_ids[i].v : i \in 1..Len(reg.artifact_ids)}
    \cup {reg.node_ids[i].v : i \in 1..Len(reg.node_ids)}
    \cup {reg.interaction_ids[i].v : i \in 1..Len(reg.interaction_ids)}
    \cup {reg.message_ids[i][1] : i \in 1..Len(reg.message_ids)}

\* The identifiers generate_uuid gives out after the first and up to the second count.
AllocatedBetween(first, second) == {Uuid(n) : n \in (first + 1)..second}

\* C4: The registries of a unified generator hold only entries created during the
\* most recent call that built a document (a call that allocated an identifier: it
\* cleared the registries and created the document), and the cross-references of the
\* document a call returns are identifiers allocated during that call. In a step: a new
\* generator has empty registries; a call of generate that builds a document leaves in
\* the registries only identifiers it allocated; every other step leaves the
\* registries of a generator as they were.
C4_RegistriesOfLastDocument ==
    [][/\ \A g \in 1..Len(objects') :
            objects'[g].cls = "UnifiedXmiGenerator" =>
                IF g > Len(objects) THEN RegistryIds(objects'[g].reg) = {}
                ELSE IF calls' # calls /\ last'.self = g /\ uuids' > uuids
                THEN RegistryIds(objects'[g].reg) \subseteq AllocatedBetween(uuids, uuids')
                ELSE objects'[g].reg = objects[g].reg
       /\ (calls' # calls /\ last'.result # EmptyStr)
            => ReferencesOf(last'.result) \subseteq AllocatedBetween(uuids, uuids')]_vars

\* C4 witness: the second call on the one generator there is returns a document, after
\* a first call that allocated identifiers; the registries hold entries.
C4_Witness ==
    /\ LastCallOf("UnifiedXmiGenerator", "generate") /\ last.result # EmptyStr
    /\ calls = 2 /\ Len(objects) = 1 /\ last.uuid0 > 0
    /\ objects[1].reg.message_ids # <<>>
    /\ ReferencesOf(last.result) # {}

\* The builders.
BuilderOps == {"generate_xmi", "generate_xmi_for_trace", "generate"}

\* C9: Every builder returns without raising: '' for no traces, else a document (a
\* tree under the root xmi:XMI) or ''.
C9_BuildersReturn ==
    last.op \in BuilderOps =>
        /\ last.raised = None
        /\ last.traces = <<>> => last.result = EmptyStr
        /\ last.result = EmptyStr \/ last.result[1].tag = "xmi:XMI"

\* C9 witness: the body of a builder raised for a trace list that is not empty, and
\* the builder returned ''.
C9_Witness ==
    /\ last.op \in BuilderOps /\ last.traces # <<>>
    /\ last.caught # None /\ last.raised = None /\ last.result = EmptyStr

\* The constructors, and the values of the two supported profiles.
ConstructorOps ==
    {"XmiWriter", "ComponentDiagramGenerator", "DeploymentDiagramGenerator",
     "SequenceDiagramGenerator", "UnifiedXmiGenerator"}
SupportedProfiles == {"papyrus", "magicdraw"}

\* C10: Constructing a serializer or a generator with a selector other than the two
\* supported profiles raises, and no object is made.
C10_UnsupportedSelectorFails ==
    (last.op \in ConstructorOps /\ last.selector.value \notin SupportedProfiles)
        => last.raised # None /\ last.self = 0

\* The attributes of the root that declare a namespace.
NamespaceKeys ==
    {"xmlns:xmi", "xmlns:uml", "xmlns:ns1", "xmlns:MARTE_GQAM", "xmlns:MARTE_GRM",
     "xmlns:MARTE_PAM"}

\* An attribute value with an identifier renamed to its number among the identifiers
\* of its call (uuid0 were allocated before the call).
Renamed(v, uuid0) ==
    IF Len(v) = 2 /\ v[1] \in {"", "_marte_"} THEN <<v[1], v[2] - uuid0>> ELSE v

\* A document without what the claim lets differ between the profiles: the URIs of
\* the declared namespaces are blanked and the identifiers renamed.
Unprofiled(doc, uuid0) ==
    [e \in 1..Len(doc) |->
        [doc[e] EXCEPT !.attrs =
            [a \in 1..Len(doc[e].attrs) |->
                IF doc[e].attrs[a].k \in NamespaceKeys
                THEN Attr(doc[e].attrs[a].k, <<>>)
                ELSE Attr(doc[e].attrs[a].k, Renamed(doc[e].attrs[a].v, uuid0))]]]

\* Two calls of the same builder for the same trace list in the same run, by two
\* generators that differ in the profile only; both built a document.
SameCallUnderTwoProfiles(first, second, first_self, second_self) ==
    /\ first.op \in BuilderOps /\ second.op = first.op
    /\ second.traces = first.traces /\ second.env = first.env
    /\ first.result # EmptyStr /\ second.result # EmptyStr
    /\ first_self.cls = second_self.cls
    /\ first_self.xmi_writer.format # second_self.xmi_writer.format
    /\ first_self.cls = "UnifiedXmiGenerator"
            => first_self.include_marte = second_self.include_marte

\* C11: For the same trace list, the documents built under the two profiles are the
\* same tree (tags, attribute keys, order, text, and values up to the renaming of the
\* identifiers) and differ only in the URIs of the namespaces they declare. In a step:
\* a builder call that follows the same call on a generator of the other profile
\* returns the same document up to those URIs.
C11_ProfilesDifferOnlyInUris ==
    [][SameCallUnderTwoProfiles(last, last', objects[last.self], objects'[last'.self])
        => Unprofiled(last.result, last.uuid0) = Unprofiled(last'.result, last'.uuid0)]_vars

\* The elements of a document that have an identifier.
WithId(doc) == {e \in 1..Len(doc) : DictHas(doc[e].attrs, "xmi:id")}

\* The tags of the elements the builders create with an identifier: packaged and owned
\* elements, comments, lifelines, fragments, messages, manifestations, the ends of a
\* CommunicationPath, the application of the profile and the annotation records.
IdentifiedTags ==
    {"packagedElement", "ownedOperation", "ownedAttribute", "ownedComment", "ownedBehavior",
     "ownedEnd", "lifeline", "fragment", "message", "manifestation", "profileApplication",
     "MARTE_GRM:RtUnit", "MARTE_GRM:GaExecHost", "MARTE_GQAM:GaAnalysisContext",
     "MARTE_PAM:PaStep"}

\* C12: Within the document a builder returns every identifier is distinct: each
\* element of a kind that is created with an identifier has one, and no identifier is
\* that of two elements.
C12_IdentifiersDistinct ==
    (last.op \in BuilderOps /\ last.result # EmptyStr) =>
        /\ \A e \in 1..Len(last.result) :
              last.result[e].tag \in IdentifiedTags => e \in WithId(last.result)
        /\ \A e1, e2 \in WithId(last.result) :
              AttrOf(last.result, e1, "xmi:id") = AttrOf(last.result, e2, "xmi:id") => e1 = e2

\* C12 witness: a unified document of more than 20 identified elements, with
\* annotation records, a Manifestation, lifelines, fragments and a Message.
C12_Witness ==
    /\ LastCallOf("UnifiedXmiGenerator", "generate") /\ last.result # EmptyStr
    /\ \A tag \in {"manifestation", "lifeline", "fragment", "message", "profileApplication",
                   "MARTE_PAM:PaStep", "MARTE_GRM:RtUnit"} :
          \E e \in WithId(last.result) : last.result[e].tag = tag
    /\ Cardinality(WithId(last.result)) > 20

\* The Component elements of a document with the name of the service.
ComponentsNamed(doc, service) ==
    {c \in ElementsOfType(doc, "Component") : AttrOf(doc, c, "name") = service}

\* A document has exactly one Component for each of the services, and no other.
OneComponentPerService(doc, services) ==
    /\ \A service \in services : Cardinality(ComponentsNamed(doc, service)) = 1
    /\ \A c \in ElementsOfType(doc, "Component") : AttrOf(doc, c, "name") \in services

\* The registry maps each of the services, and nothing else, to the identifier of its
\* Component in the document.
RegistryOfComponents(doc, component_ids, services) ==
    /\ DictKeySet(component_ids) = services
    /\ \A service \in services : \A c \in ComponentsNamed(doc, service) :
          DictGet(component_ids, service) = AttrOf(doc, c, "xmi:id")

\* C13: The document of the unified view and of the interface-based view has exactly
\* one Component for each service of the summary of the traces, and the registry of the
\* unified generator maps each service to the identifier of that element.
C13_OneComponentPerService ==
    /\ (LastCallOf("ComponentDiagramGenerator", "generate_xmi") /\ last.result # EmptyStr)
          => OneComponentPerService(last.result, TraceAggregator(last.traces).all_services)
    /\ (LastCallOf("UnifiedXmiGenerator", "generate") /\ last.result # EmptyStr)
          => /\ OneComponentPerService(last.result, TraceAggregator(last.traces).all_services)
             /\ RegistryOfComponents(last.result, objects[last.self].reg.component_ids,
                                     TraceAggregator(last.traces).all_services)

\* C13 witness: the interface-based view of three services, whose Components are in
\* two packages.
C13_Witness ==
    /\ LastCallOf("ComponentDiagramGenerator", "generate_xmi") /\ last.result # EmptyStr
    /\ Cardinality(TraceAggregator(last.traces).all_services) = 3
    /\ Cardinality({last.result[c].parent : c \in ElementsOfType(last.result, "Component")}) = 2

\* The Operation elements of the Component of a service with the name.
OperationsNamed(doc, service, name) ==
    {o \in 1..Len(doc) :
        /\ doc[o].tag = "ownedOperation" /\ AttrOf(doc, o, "name") = name
        /\ doc[o].parent \in ComponentsNamed(doc, service)}

\* The simple names of the operations of a service in the summary.
SimpleNames(aggregator, service) ==
    {extract_simple_operation_name(op) : op \in DictGetOr(aggregator.service_operations, service, {})}

\* A service has, for each simple name, one Operation element, whose identifier the
\* registry holds for the pair.
OneOperationPerSimpleName(doc, operation_ids, aggregator, service) ==
    \A name \in SimpleNames(aggregator, service) :
        /\ Cardinality(OperationsNamed(doc, service, name)) = 1
        /\ \A o \in OperationsNamed(doc, service, name) :
              DictGet(DictGet(operation_ids, service), name) = AttrOf(doc, o, "xmi:id")

\* C14: For each service the unified document holds exactly one Operation identifier
\* for each simple operation name: raw names of one simple name share one Operation
\* element, and the registry holds its identifier for the pair (service, name).
C14_OneOperationPerSimpleName ==
    (LastCallOf("UnifiedXmiGenerator", "generate") /\ last.result # EmptyStr)
        => \A service \in TraceAggregator(last.traces).all_services :
              OneOperationPerSimpleName(last.result, objects[last.self].reg.operation_ids,
                                        TraceAggregator(last.traces), service)

\* The children of an element with the tag.
ChildrenOf(doc, parent, tag) == {e \in 1..Len(doc) : doc[e].parent = parent /\ doc[e].tag = tag}

\* The texts of the Comment children of an element.
CommentsOf(doc, parent) ==
    {doc[b].text : b \in UNION {ChildrenOf(doc, c, "body") : c \in ChildrenOf(doc, parent, "ownedComment")}}

\* C15: In the unified view a Component shows at most 20 Operation children, and the
\* Component of a service with more than 20 operations has a Comment child.
C15_AtMostTwentyOperations ==
    (LastCallOf("UnifiedXmiGenerator", "generate") /\ last.result # EmptyStr)
        => \A c \in ElementsOfType(last.result, "Component") :
              /\ Cardinality(ChildrenOf(last.result, c, "ownedOperation")) <= 20
              /\ Cardinality(DictGetOr(TraceAggregator(last.traces).service_operations,
                                       AttrOf(last.result, c, "name"), {})) > 20
                    => CommentsOf(last.result, c) # {}

\* The operation names by which a service is called in the summary, by any caller.
CalledNames(aggregator, service) ==
    UNION {UNION {c.v[j].v : j \in {j \in 1..Len(c.v) : c.v[j].k = service}} :
           c \in Range(aggregator.service_calls)}

\* The Interface elements of a document with the name built from the service's.
InterfacesOf(doc, service) ==
    {i \in ElementsOfType(doc, "Interface") :
        AttrOf(doc, i, "name") = Lit.I \o capitalize_service_name(service)}

\* The Interface of a callee: at most 15 Operation children, each named by the clean
\* name of a name the service is called by, and a Comment stating n - 15 when there
\* are n > 15 such names.
InterfaceOfCallee(doc, i, names) ==
    /\ Cardinality(ChildrenOf(doc, i, "ownedOperation")) <= 15
    /\ \A o \in ChildrenOf(doc, i, "ownedOperation") :
          \E n \in names : AttrOf(doc, o, "name") = clean_operation_name(n)
    /\ Cardinality(names) > 15
          => <<"+", Cardinality(names) - 15, " more operations">> \in CommentsOf(doc, i)

\* C16: The interface-based view has exactly one Interface for each service that is
\* called and none for a service that is never called; the Interface has at most 15
\* Operation children, named from the names the service is called by, and a Comment
\* stating n - 15 when the service is called by n > 15 names.
C16_OneInterfacePerCallee ==
    (LastCallOf("ComponentDiagramGenerator", "generate_xmi") /\ last.result # EmptyStr)
          => /\ \A s \in Callees(TraceAggregator(last.traces)) :
                  /\ Cardinality(InterfacesOf(last.result, s)) = 1
                  /\ \A i \in InterfacesOf(last.result, s) :
                        InterfaceOfCallee(last.result, i,
                                          CalledNames(TraceAggregator(last.traces), s))
             /\ Cardinality(ElementsOfType(last.result, "Interface"))
                   = Cardinality(Callees(TraceAggregator(last.traces)))

\* C16 witness: a view of a service that is never called and of a service called by
\* more than 15 names, whose Interface has 15 Operation children and the Comment.
C16_Witness ==
    /\ LastCallOf("ComponentDiagramGenerator", "generate_xmi") /\ last.result # EmptyStr
    /\ TraceAggregator(last.traces).all_services \ Callees(TraceAggregator(last.traces)) # {}
    /\ \E s \in Callees(TraceAggregator(last.traces)) : \E i \in InterfacesOf(last.result, s) :
          /\ Cardinality(CalledNames(TraceAggregator(last.traces), s)) = CappedOps
          /\ CappedOps > 15
          /\ Cardinality(ChildrenOf(last.result, i, "ownedOperation")) = 15
          /\ <<"+", CappedOps - 15, " more operations">> \in CommentsOf(last.result, i)

\* A view of a service that is never called and of a service called by two names,
\* whose Interface has the two Operation children.
InterfaceOfTwoNames ==
    /\ LastCallOf("ComponentDiagramGenerator", "generate_xmi") /\ last.result # EmptyStr
    /\ TraceAggregator(last.traces).all_services \ Callees(TraceAggregator(last.traces)) # {}
    /\ \E s \in Callees(TraceAggregator(last.traces)) : \E i \in InterfacesOf(last.result, s) :
          /\ Cardinality(CalledNames(TraceAggregator(last.traces), s)) = 2
          /\ Cardinality(ChildrenOf(last.result, i, "ownedOperation")) = 2

\* The Interface of a service called by more than 15 names, one of them opY: in one
\* view the 15 Operation children leave opY out, in another they have it.
NamedOperations(doc, i, name) ==
    {o \in ChildrenOf(doc, i, "ownedOperation") : AttrOf(doc, o, "name") = name}
CappedInterfaces ==
    IF LastCallOf("ComponentDiagramGenerator", "generate_xmi") /\ last.result # EmptyStr
    THEN {i \in ElementsOfType(last.result, "Interface") :
             /\ Cardinality(ChildrenOf(last.result, i, "ownedOperation")) = 15
             /\ CommentsOf(last.result, i) # {}}
    ELSE {}
InterfaceCappedWithout ==
    \E i \in CappedInterfaces : NamedOperations(last.result, i, clean_operation_name(opY)) = {}
InterfaceCappedWith ==
    \E i \in CappedInterfaces : NamedOperations(last.result, i, clean_operation_name(opY)) # {}

\* The metadata keys of the node name in the stated order of priority: the pod name
\* (two keys), the container name, the container id, the hostname, the instance id,
\* the host name, the node name, the host ip.
NodeNamePriority ==
    <<"pod.name", "k8s.pod.name", "container.name", "container.id", "hostname",
      "instance.id", "host.name", "node.name", "host.ip">>

\* The node name the stated priority gives a metadata that has one of the keys: the
\* value of the first key, without its hash suffix for a pod or a container name, as
\* "Container-" and 12 characters for a container id, as "Host-" and the ip for an ip.
NodeNameByPriority(metadata) ==
    Let(NodeNamePriority[FirstTag(metadata, NodeNamePriority)], LAMBDA key :
        IF key \in {"pod.name", "k8s.pod.name", "container.name"}
        THEN extract_base_name(DictGet(metadata, key))
        ELSE IF key = "container.id"
        THEN Lit.Container \o Take(DictGet(metadata, key),
                                   IF Len(DictGet(metadata, key)) > 12 THEN 12
                                   ELSE Len(DictGet(metadata, key)))
        ELSE IF key = "host.ip" THEN Lit.Host \o DictGet(metadata, key)
        ELSE DictGet(metadata, key))

\* The names of the Node elements of a document.
NodeNames(doc) == {AttrOf(doc, n, "name") : n \in ElementsOfType(doc, "Node")}

\* Every service whose metadata has a key of the priority list has, in the document,
\* a Node of the name the priority gives.
NodesByPriority(doc, service_metadata) ==
    \A e \in Range(service_metadata) :
        FirstTag(e.v, NodeNamePriority) # 0 => NodeNameByPriority(e.v) \in NodeNames(doc)

\* C17: In the deployment view and in the unified view alike, the Node of a service is
\* named by the first non-empty value of its metadata in the order pod name, container
\* name, container id, hostname, instance id, host name, node name, host ip.
C17_NodeNameByPriority ==
    /\ (LastCallOf("DeploymentDiagramGenerator", "generate_xmi") /\ last.result # EmptyStr)
          => NodesByPriority(last.result, TraceAggregator(last.traces).service_metadata)
    /\ (LastCallOf("UnifiedXmiGenerator", "generate") /\ last.result # EmptyStr)
          => NodesByPriority(last.result, TraceAggregator(last.traces).service_metadata)

\* The identifiers of a set of elements of a document.
IdsAmong(doc, elements) == {AttrOf(doc, e, "xmi:id") : e \in elements}

\* The Artifact elements of a service, the Manifestation elements whose supplier is the
\* service's Component, and the Deployment elements of the service's Artifact whose
\* location is a Node of the document.
ArtifactsOf(doc, service) ==
    {a \in ElementsOfType(doc, "Artifact") :
        AttrOf(doc, a, "name") = Fmt(service) \o Lit.artifact}
ManifestationsOf(doc, service) ==
    {m \in 1..Len(doc) :
        /\ doc[m].tag = "manifestation"
        /\ doc[m].parent \in ArtifactsOf(doc, service)
        /\ AttrOf(doc, m, "supplier") \in IdsAmong(doc, ComponentsNamed(doc, service))}
DeploymentsOf(doc, service) ==
    {d \in ElementsOfType(doc, "Deployment") :
        /\ AttrOf(doc, d, "deployedArtifact") \in IdsAmong(doc, ArtifactsOf(doc, service))
        /\ AttrOf(doc, d, "location") \in IdsAmong(doc, ElementsOfType(doc, "Node"))}

\* C18: In the unified view every service of the summary has exactly one Artifact,
\* exactly one Manifestation whose supplier is its Component and exactly one Deployment
\* whose location is a Node; there is exactly one Node for each node name.
C18_EveryServiceDeployed ==
    (LastCallOf("UnifiedXmiGenerator", "generate") /\ last.result # EmptyStr)
        => /\ \A service \in TraceAggregator(last.traces).all_services :
                /\ Cardinality(ArtifactsOf(last.result, service)) = 1
                /\ Cardinality(ManifestationsOf(last.result, service)) = 1
                /\ Cardinality(DeploymentsOf(last.result, service)) = 1
           /\ Cardinality(ElementsOfType(last.result, "Node"))
                 = Cardinality(NodeNames(last.result))

\* The Lifeline elements of a document with the name, and the names of the Lifelines
\* that the occurrence with the identifier covers.
LifelinesNamed(doc, service) ==
    {l \in 1..Len(doc) : doc[l].tag = "lifeline" /\ AttrOf(doc, l, "name") = service}
Covered(doc, event_id) ==
    {AttrOf(doc, e, "covered") :
        e \in {e \in 1..Len(doc) : doc[e].tag = "fragment" /\ AttrOf(doc, e, "xmi:id") = event_id}}
LifelineOf(doc, event_id) ==
    {AttrOf(doc, l, "name") :
        l \in {l \in 1..Len(doc) : /\ doc[l].tag = "lifeline"
                                   /\ AttrOf(doc, l, "xmi:id") \in Covered(doc, event_id)}}

\* The Message elements of a document with the Lifelines of their two ends, and those
\* from the Lifeline of one service to the Lifeline of another.
Messages(doc) == {m \in 1..Len(doc) : doc[m].tag = "message"}
MessageEnds(doc) ==
    [m \in Messages(doc) |-> <<LifelineOf(doc, AttrOf(doc, m, "sendEvent")),
                               LifelineOf(doc, AttrOf(doc, m, "receiveEvent"))>>]
MessagesBetween(ends, from, to) == {m \in DOMAIN ends : ends[m] = <<{from}, {to}>>}

\* The spans of a trace whose first CHILD_OF reference names a span of the trace that
\* is owned by the service from, being themselves owned by the service to.
ChildSpans(trace, from, to) ==
    {i \in 1..Len(trace.spans) :
        /\ get_service_name(trace, trace.spans[i]) = to
        /\ \E j \in 1..Len(trace.spans) :
              /\ trace.spans[j].span_id = get_parent_span_id(trace.spans[i])
              /\ get_service_name(trace, trace.spans[j]) = from}

\* The same with a first CHILD_OF reference whose span id is not empty.
NamedChildSpans(trace, from, to) ==
    {i \in ChildSpans(trace, from, to) : get_parent_span_id(trace.spans[i]) # ""}

\* The spans of a trace, owned by the service to, whose first CHILD_OF reference
\* resolves to a span owned by the service from: the first span of the trace with the
\* id of the reference.
ResolvedChildSpans(trace, from, to) ==
    {i \in 1..Len(trace.spans) :
        /\ get_service_name(trace, trace.spans[i]) = to
        /\ HasParentInTrace(trace, trace.spans[i])
        /\ get_service_name(trace,
               FirstSpanWithId(trace, FirstChildOf(trace.spans[i]).span_id)) = from}

\* One Lifeline per service that owns a span of the trace, and no other, in the
\* Interaction.
OneLifelinePerService(doc, interaction, trace) ==
    /\ \A service \in ServiceNames(trace) :
          Cardinality({l \in LifelinesNamed(doc, service) : doc[l].parent = interaction}) = 1
    /\ \A l \in 1..Len(doc) :
          (doc[l].tag = "lifeline" /\ doc[l].parent = interaction)
              => AttrOf(doc, l, "name") \in ServiceNames(trace)

\* The last call built the sequence of a trace: generate_xmi and generate_xmi_for_trace
\* of the sequence view, generate of the unified view.
SequenceBuilt ==
    /\ \/ LastCallOf("SequenceDiagramGenerator", "generate_xmi")
       \/ LastCallOf("SequenceDiagramGenerator", "generate_xmi_for_trace")
       \/ LastCallOf("UnifiedXmiGenerator", "generate")
    /\ last.result # EmptyStr

\* The Interactions of a document in the order of the document, and the traces they
\* are built from: the sequence view builds the first trace of its list only, the
\* unified view every trace.
SequenceInteractions(doc) ==
    SelectSeq([e \in 1..Len(doc) |-> e],
              LAMBDA e : \/ doc[e].tag = "ownedBehavior"
                         \/ AttrOf(doc, e, "xmi:type") = UmlType("Interaction"))
SequenceTraces ==
    IF LastCallOf("UnifiedXmiGenerator", "generate") THEN last.traces ELSE <<last.traces[1]>>

\* One Lifeline per service of the trace and, for the spans of the set children[from, to],
\* one Message each from the Lifeline of from to the Lifeline of to; no other Message.
OneMessagePerSpan(doc, ends, interaction, trace, children) ==
    /\ OneLifelinePerService(doc, interaction, trace)
    /\ \A from, to \in ServiceNames(trace) :
          Cardinality({m \in MessagesBetween(ends, from, to) : doc[m].parent = interaction})
              = IF from = to THEN 0 ELSE Cardinality(children[from, to])
    /\ \A m \in DOMAIN ends :
          doc[m].parent = interaction
              => \E from, to \in ServiceNames(trace) : ends[m] = <<{from}, {to}>>

\* Every Message of the document is in one of its Interactions, of which there is one
\* for each trace.
OneInteractionPerTrace(doc, interactions, traces) ==
    /\ Len(interactions) = Len(traces)
    /\ \A m \in Messages(doc) : \E k \in 1..Len(interactions) : doc[m].parent = interactions[k]

\* C19: For each trace there is one Lifeline per service that owns a span of the trace
\* and one Message per span whose first CHILD_OF parent resolves to a span of the trace
\* owned by another service, from the parent's Lifeline to the span's; no other Message.
C19_OneMessagePerChildSpan ==
    SequenceBuilt
        => LET ends == MessageEnds(last.result)
               interactions == SequenceInteractions(last.result)
           IN /\ OneInteractionPerTrace(last.result, interactions, SequenceTraces)
              /\ \A k \in 1..Len(interactions) :
                    OneMessagePerSpan(last.result, ends, interactions[k], SequenceTraces[k],
                        [from, to \in ServiceNames(SequenceTraces[k]) |->
                            ResolvedChildSpans(SequenceTraces[k], from, to)])

\* No two spans of the trace have one span id.
OneSpanPerId(trace) ==
    \A i, j \in 1..Len(trace.spans) : trace.spans[i].span_id = trace.spans[j].span_id => i = j

\* The same holds of every trace with one span per id, for the spans whose first
\* CHILD_OF reference has a span id that is not empty.
OneMessagePerChildSpanOfDistinctIds ==
    SequenceBuilt
        => LET ends == MessageEnds(last.result)
               interactions == SequenceInteractions(last.result)
           IN /\ OneInteractionPerTrace(last.result, interactions, SequenceTraces)
              /\ \A k \in 1..Len(interactions) :
                    OneSpanPerId(SequenceTraces[k])
                        => OneMessagePerSpan(last.result, ends, interactions[k],
                               SequenceTraces[k],
                               [from, to \in ServiceNames(SequenceTraces[k]) |->
                                   NamedChildSpans(SequenceTraces[k], from, to)])

\* The sequence of a trace in which the spans of api and of cart have one span id and
\* the span of db is a child of that id: the first span with the id is that of api, and
\* the only Message goes from the Lifeline of cart to the Lifeline of db.
MessageFromLaterSpanOfId ==
    /\ LastCallOf("SequenceDiagramGenerator", "generate_xmi") /\ last.result # EmptyStr
    /\ last.traces = <<SharedIdTrace>>
    /\ ResolvedChildSpans(SharedIdTrace, api, db) # {}
    /\ ResolvedChildSpans(SharedIdTrace, cart, db) = {}
    /\ Cardinality(Messages(last.result)) = 1
    /\ MessagesBetween(MessageEnds(last.result), cart, db) # {}

\* The spans of a trace for which a sequence builder makes a Message, in the order of
\* their start times: the order of the Message elements in the document.
MessageSpans(trace) ==
    SelectSeq(SortByStartTime(trace.spans),
              LAMBDA span :
                  \E from, to \in ServiceNames(trace) :
                      /\ from # to
                      /\ \E i \in NamedChildSpans(trace, from, to) : trace.spans[i] = span)

\* The names of the Message elements of a document, in the order of the document.
RECURSIVE MessageNamesFrom(_, _)
MessageNamesFrom(doc, e) ==
    IF e > Len(doc) THEN <<>>
    ELSE (IF doc[e].tag = "message" THEN <<AttrOf(doc, e, "name")>> ELSE <<>>)
         \o MessageNamesFrom(doc, e + 1)
MessageNames(doc) == MessageNamesFrom(doc, 1)

\* C20: In the sequence view and in the unified view alike, every Message is named by
\* the clean name of the operation of its span, not by the simple name.
C20_MessageNamedByCleanName ==
    SequenceBuilt
        => MessageNames(last.result)
              = [i \in 1..Len(MessageSpans(last.traces[1])) |->
                    clean_operation_name(MessageSpans(last.traces[1])[i].operation_name)]

\* The Message elements of a document in the order of the document.
MessagesInOrder(doc) ==
    SelectSeq([e \in 1..Len(doc) |-> e], LAMBDA e : doc[e].tag = "message")

\* The occurrence fragments of a document with the identifier.
Occurrences(doc, event_id) ==
    {e \in 1..Len(doc) : doc[e].tag = "fragment" /\ AttrOf(doc, e, "xmi:id") = event_id}

\* The services of the spans of a trace that have the span id.
ServicesOfId(trace, span_id) ==
    {get_service_name(trace, trace.spans[j]) :
        j \in {j \in 1..Len(trace.spans) : trace.spans[j].span_id = span_id}}

\* The k-th Message of the document is that of the k-th span, in ascending order of
\* start time, that has a Message: it goes from the Lifeline of the parent's service to
\* the Lifeline of the span's service and has a name of the span's operation.
MessagesInTimeOrder(doc, trace, ms, spans, ends) ==
    /\ Len(ms) = Len(spans)
    /\ \A k \in 1..Len(ms) :
          /\ \E from \in ServicesOfId(trace, get_parent_span_id(spans[k])) :
                ends[ms[k]] = <<{from}, {get_service_name(trace, spans[k])}>>
          /\ AttrOf(doc, ms[k], "name")
                \in {clean_operation_name(spans[k].operation_name),
                     extract_simple_operation_name(spans[k].operation_name)}

\* The send fragment of a Message precedes its receive fragment, which precedes the
\* Message.
SendReceiveMessage(doc, m) ==
    /\ Cardinality(Occurrences(doc, AttrOf(doc, m, "sendEvent"))) = 1
    /\ Cardinality(Occurrences(doc, AttrOf(doc, m, "receiveEvent"))) = 1
    /\ \A s \in Occurrences(doc, AttrOf(doc, m, "sendEvent")) :
       \A r \in Occurrences(doc, AttrOf(doc, m, "receiveEvent")) :
          /\ s < r /\ r < m
          /\ doc[s].parent = doc[m].parent /\ doc[r].parent = doc[m].parent

\* C21: Within one Interaction the Messages are in ascending order of the start times
\* of their spans, spans of one start time in the order of the input; the send fragment
\* of a Message precedes its receive fragment, which precedes the Message.
C21_MessagesInTimeOrder ==
    SequenceBuilt
        => LET ends == MessageEnds(last.result)
               ms == MessagesInOrder(last.result)
               interactions == SequenceInteractions(last.result)
           IN /\ OneInteractionPerTrace(last.result, interactions, SequenceTraces)
              /\ \A k \in 1..Len(interactions) :
                    MessagesInTimeOrder(last.result, SequenceTraces[k],
                        SelectSeq(ms, LAMBDA m : last.result[m].parent = interactions[k]),
                        MessageSpans(SequenceTraces[k]), ends)
              /\ \A m \in Messages(last.result) : SendReceiveMessage(last.result, m)

\* C21 witness: a document of two Messages for a trace whose spans are not in the order
\* of their start times and in which the span of a Message starts before its parent.
C21_Witness ==
    /\ SequenceBuilt
    /\ Len(MessagesInOrder(last.result)) = 2
    /\ \E i, j \in 1..Len(last.traces[1].spans) :
          i < j /\ last.traces[1].spans[i].start_time > last.traces[1].spans[j].start_time
    /\ \E k \in 1..Len(MessageSpans(last.traces[1])) :
       \E j \in 1..Len(last.traces[1].spans) :
          /\ last.traces[1].spans[j].span_id = get_parent_span_id(MessageSpans(last.traces[1])[k])
          /\ MessageSpans(last.traces[1])[k].start_time < last.traces[1].spans[j].start_time

\* The spans of the Messages of a list of traces, each with its trace, in the order of
\* the Messages in a unified document: trace by trace.
RECURSIVE MessageSpansWithTrace(_)
MessageSpansWithTrace(traces) ==
    IF traces = <<>> THEN <<>>
    ELSE [k \in 1..Len(MessageSpans(Head(traces))) |->
             [trace |-> Head(traces), span |-> MessageSpans(Head(traces))[k]]]
         \o MessageSpansWithTrace(Tail(traces))

\* The Message has a signature, which is the identifier the registry holds for the
\* receiving service under the Message's name and the identifier of an Operation of
\* that name owned by the Component of the receiving service.
SignatureOf(doc, operation_ids, m, to) ==
    /\ DictHas(doc[m].attrs, "signature")
    /\ DictHas(operation_ids, to)
    /\ DictHas(DictGet(operation_ids, to), AttrOf(doc, m, "name"))
    /\ AttrOf(doc, m, "signature") = DictGet(DictGet(operation_ids, to), AttrOf(doc, m, "name"))
    /\ \E o \in OperationsNamed(doc, to, AttrOf(doc, m, "name")) :
          AttrOf(doc, o, "xmi:id") = AttrOf(doc, m, "signature")

\* C22: In the unified view every Message carries a signature: the identifier that the
\* registry holds for the receiving service under the simple name of the span's
\* operation, which is that of an Operation owned by the receiving service's Component.
C22_MessageSignature ==
    (LastCallOf("UnifiedXmiGenerator", "generate") /\ last.result # EmptyStr)
        => LET ends == MessageEnds(last.result)
               ms == MessagesInOrder(last.result)
               spans == MessageSpansWithTrace(last.traces)
           IN /\ Len(ms) = Len(spans)
              /\ \A k \in 1..Len(ms) :
                    /\ AttrOf(last.result, ms[k], "name")
                          = extract_simple_operation_name(spans[k].span.operation_name)
                    /\ SignatureOf(last.result, objects[last.self].reg.operation_ids, ms[k],
                                   get_service_name(spans[k].trace, spans[k].span))
                    /\ ends[ms[k]][2] = {get_service_name(spans[k].trace, spans[k].span)}

\* C22 witness: a unified document with two Messages to one service, whose signatures
\* are two Operations of that service's Component.
C22_Witness ==
    /\ LastCallOf("UnifiedXmiGenerator", "generate") /\ last.result # EmptyStr
    /\ \E m1, m2 \in Messages(last.result) :
          /\ MessageEnds(last.result)[m1][2] = MessageEnds(last.result)[m2][2]
          /\ DictHas(last.result[m1].attrs, "signature")
          /\ DictHas(last.result[m2].attrs, "signature")
          /\ AttrOf(last.result, m1, "signature") # AttrOf(last.result, m2, "signature")

\* The (caller, callee) pairs of the call map of a summary.
CallPairs(aggregator) ==
    UNION {{<<c.k, c.v[j].k>> : j \in 1..Len(c.v)} : c \in Range(aggregator.service_calls)}

\* The Usage elements of a document whose client is the Component of the caller and
\* whose supplier is the Component of the callee.
UsagesOf(doc, caller, callee) ==
    {u \in ElementsOfType(doc, "Usage") :
        /\ \E c \in ChildrenOf(doc, u, "client") :
              AttrOf(doc, c, "xmi:idref") \in IdsAmong(doc, ComponentsNamed(doc, caller))
        /\ \E c \in ChildrenOf(doc, u, "supplier") :
              AttrOf(doc, c, "xmi:idref") \in IdsAmong(doc, ComponentsNamed(doc, callee))}

\* C23: In the unified view there is exactly one Usage from the caller's Component to
\* the callee's Component for each (caller, callee) pair of the call map, and no other.
C23_OneUsagePerPair ==
    (LastCallOf("UnifiedXmiGenerator", "generate") /\ last.result # EmptyStr)
        => /\ \A pair \in CallPairs(TraceAggregator(last.traces)) :
                 Cardinality(UsagesOf(last.result, pair[1], pair[2])) = 1
           /\ Cardinality(ElementsOfType(last.result, "Usage"))
                 = Cardinality(CallPairs(TraceAggregator(last.traces)))

\* The annotation records of a document: the stereotype applications of the MARTE
\* sub-profiles, and the attribute that holds the reference of a record.
RecordTags ==
    {"MARTE_GRM:RtUnit", "MARTE_GRM:GaExecHost", "MARTE_GQAM:GaAnalysisContext",
     "MARTE_PAM:PaStep"}
Records(doc) == {r \in 1..Len(doc) : doc[r].tag \in RecordTags}
RecordsTagged(doc, tag) == {r \in 1..Len(doc) : doc[r].tag = tag}
BaseKeys == {"base_BehavioredClassifier", "base_Classifier", "base_NamedElement"}
BaseOf(doc, r) == {AttrOf(doc, r, key) : key \in {key \in BaseKeys : DictHas(doc[r].attrs, key)}}

\* The last call built a unified document with annotations.
AnnotatedBuilt ==
    /\ LastCallOf("UnifiedXmiGenerator", "generate") /\ last.result # EmptyStr
    /\ objects[last.self].include_marte

\* C24: In a unified build with annotations every annotation record is created after
\* every element of the structure, is a child of the document root after the model
\* element, and refers to the identifier of an element created before it.
C24_RecordsAfterStructure ==
    AnnotatedBuilt
        => \A r \in Records(last.result) :
              /\ last.result[r].parent = 1
              /\ \A e \in (1..Len(last.result)) \ Records(last.result) : e < r
              /\ \E m \in 1..(r - 1) : last.result[m].parent = 1 /\ last.result[m].tag # last.result[r].tag
                                      /\ m \notin Records(last.result)
              /\ Cardinality(BaseOf(last.result, r)) = 1
              /\ \A base \in BaseOf(last.result, r) :
                    \E e \in (1..(r - 1)) \ Records(last.result) :
                        AttrOf(last.result, e, "xmi:id") = base

\* C24 witness: a unified document of two traces with records of the four kinds.
C24_Witness ==
    /\ AnnotatedBuilt
    /\ Len(last.traces) = 2
    /\ \A tag \in RecordTags : RecordsTagged(last.result, tag) # {}

\* The records of a kind that refer to the element e of a document.
RecordsOf(doc, tag, key, e) ==
    {r \in RecordsTagged(doc, tag) : AttrOf(doc, r, key) = AttrOf(doc, e, "xmi:id")}

\* The Interactions of a unified document.
Interactions(doc) == {i \in 1..Len(doc) : doc[i].tag = "ownedBehavior"}

\* Every element of the set has exactly one record of the kind, and the kind has no
\* other record.
OneRecordEach(doc, tag, key, elements) ==
    /\ \A e \in elements : Cardinality(RecordsOf(doc, tag, key, e)) = 1
    /\ Cardinality(RecordsTagged(doc, tag)) = Cardinality(elements)

\* The three kinds of record that are kept per Component, Node and Message.
RecordsOfStructure(doc) ==
    /\ OneRecordEach(doc, "MARTE_GRM:RtUnit", "base_BehavioredClassifier",
                     ElementsOfType(doc, "Component"))
    /\ \A r \in RecordsTagged(doc, "MARTE_GRM:RtUnit") : AttrOf(doc, r, "isActive") = A("true")
    /\ OneRecordEach(doc, "MARTE_GRM:GaExecHost", "base_Classifier", ElementsOfType(doc, "Node"))
    /\ OneRecordEach(doc, "MARTE_PAM:PaStep", "base_NamedElement", Messages(doc))

\* The traces of a list have pairwise different names.
DistinctNames(traces) ==
    \A i, j \in 1..Len(traces) : traces[i].source_name = traces[j].source_name => i = j

\* C25: In a unified build with annotations the document has one Interaction per input
\* trace, one analysis-context record per Interaction, one timed-step record per
\* Message, one execution-host record per Node and one active-unit record, with its
\* active flag, per Component.
C25_OneRecordPerElement ==
    AnnotatedBuilt
        => /\ Cardinality(Interactions(last.result)) = Len(last.traces)
           /\ OneRecordEach(last.result, "MARTE_GQAM:GaAnalysisContext", "base_NamedElement",
                            Interactions(last.result))
           /\ RecordsOfStructure(last.result)

\* The records per Component, Node and Message are one-to-one in every build, and the
\* analysis-context records are one-to-one where the traces have different names.
RecordsOneToOneForDistinctNames ==
    AnnotatedBuilt
        => /\ Cardinality(Interactions(last.result)) = Len(last.traces)
           /\ RecordsOfStructure(last.result)
           /\ DistinctNames(last.traces)
                => OneRecordEach(last.result, "MARTE_GQAM:GaAnalysisContext",
                                 "base_NamedElement", Interactions(last.result))

\* Two traces of one name: two Interactions and one analysis-context record.
TwoInteractionsOneContext ==
    /\ AnnotatedBuilt
    /\ Cardinality(Interactions(last.result)) = 2
    /\ Cardinality(RecordsTagged(last.result, "MARTE_GQAM:GaAnalysisContext")) = 1

\* The spans of the Messages of a list of traces, in the order of the document, each
\* with its trace.
RECURSIVE MessageSpansOfAll(_)
MessageSpansOfAll(traces) ==
    IF traces = <<>> THEN <<>>
    ELSE MessageSpans(Head(traces)) \o MessageSpansOfAll(Tail(traces))

\* d / 1000 with three decimals, as a string: the decimal digits of d with at least
\* four of them, and a point before the last three.
RECURSIVE Decimals(_, _)
Decimals(d, places) ==
    IF places = 0 THEN (IF d = 0 THEN <<>> ELSE Decimals(d \div 10, 0) \o <<Chars[5 + (d % 10)]>>)
    ELSE Decimals(d \div 10, places - 1) \o <<Chars[5 + (d % 10)]>>
Thousandths(d) ==
    LET digits == Decimals(d, 4)
    IN SubSeq(digits, 1, Len(digits) - 3) \o <<".">> \o SubSeq(digits, Len(digits) - 2, Len(digits))

\* The span of a Message is tagged as sent by a producer.
IsProducer(span) ==
    \E i \in 1..Len(span.tags) :
        span.tags[i].k = "span.kind" /\ span.tags[i].v = <<"p", "r", "o", "d", "u", "c", "e", "r">>

\* C26: In a unified build with annotations the timed-step record of every Message has
\* the host demand "(value=V,unit=ms)" with V the duration of the span in microseconds
\* over 1000 written with three decimals, has the flag noSync exactly when the span's
\* tag span.kind is "producer", and has no probability attribute.
C26_HostDemandOfMessage ==
    AnnotatedBuilt
        => LET ms == MessagesInOrder(last.result)
               spans == MessageSpansOfAll(last.traces)
           IN /\ Len(ms) = Len(spans)
              /\ \A k \in 1..Len(ms) :
                 \A r \in RecordsOf(last.result, "MARTE_PAM:PaStep", "base_NamedElement", ms[k]) :
                    /\ AttrOf(last.result, r, "hostDemand")
                          = <<"(value=">> \o Thousandths(spans[k].duration) \o <<",unit=ms)">>
                    /\ DictHas(last.result[r].attrs, "noSync") <=> IsProducer(spans[k])
                    /\ DictHas(last.result[r].attrs, "noSync")
                          => AttrOf(last.result, r, "noSync") = A("true")
                    /\ ~DictHas(last.result[r].attrs, "prob")
              /\ \A k \in 1..Len(ms) :
                    RecordsOf(last.result, "MARTE_PAM:PaStep", "base_NamedElement", ms[k]) # {}

\* C26 witness: records with the demands 0.000, 0.070 and 1.005, one of a producer and
\* one of a span with another span.kind.
C26_Witness ==
    /\ AnnotatedBuilt
    /\ \A v \in {<<"0", ".", "0", "0", "0">>, <<"0", ".", "0", "7", "0">>, <<"1", ".", "0", "0", "5">>} :
       \E r \in RecordsTagged(last.result, "MARTE_PAM:PaStep") :
          AttrOf(last.result, r, "hostDemand") = <<"(value=">> \o v \o <<",unit=ms)">>
    /\ \E r \in RecordsTagged(last.result, "MARTE_PAM:PaStep") : DictHas(last.result[r].attrs, "noSync")
    /\ \E k \in 1..Len(MessageSpansOfAll(last.traces)) :
          /\ MessageSpansOfAll(last.traces)[k].tags # <<>>
          /\ ~IsProducer(MessageSpansOfAll(last.traces)[k])

\* The elements of a set are in the order of their names within each parent: of two of
\* them under one parent the later one does not have the smaller name.
InNameOrder(doc, elements) ==
    \A e1, e2 \in elements :
        (e1 < e2 /\ doc[e1].parent = doc[e2].parent)
            => ~LexLess(AttrOf(doc, e2, "name"), AttrOf(doc, e1, "name"))

\* The Lifelines of a document.
Lifelines(doc) == {l \in 1..Len(doc) : doc[l].tag = "lifeline"}

\* The last call is a call of a builder that returned a document.
DocumentBuilt ==
    /\ \/ LastCallOf("ComponentDiagramGenerator", "generate_xmi")
       \/ LastCallOf("DeploymentDiagramGenerator", "generate_xmi")
       \/ SequenceBuilt
    /\ last.result # EmptyStr

\* C27: In the document of every builder the Components, Interfaces, Nodes, Artifacts
\* and Lifelines are in the lexicographic order of their names, whatever the order in
\* which the sets of the summary are iterated.
C27_ElementsInNameOrder ==
    DocumentBuilt
        => /\ InNameOrder(last.result, ElementsOfType(last.result, "Component"))
           /\ InNameOrder(last.result, ElementsOfType(last.result, "Interface"))
           /\ InNameOrder(last.result, ElementsOfType(last.result, "Node"))
           /\ InNameOrder(last.result, ElementsOfType(last.result, "Artifact"))
           /\ InNameOrder(last.result, Lifelines(last.result))

\* The same for the unified builder and the two sequence builders alone.
SortedBuildersInNameOrder ==
    SequenceBuilt
        => /\ InNameOrder(last.result, ElementsOfType(last.result, "Component"))
           /\ InNameOrder(last.result, ElementsOfType(last.result, "Interface"))
           /\ InNameOrder(last.result, ElementsOfType(last.result, "Node"))
           /\ InNameOrder(last.result, ElementsOfType(last.result, "Artifact"))
           /\ InNameOrder(last.result, Lifelines(last.result))

\* A deployment document whose Nodes are not in the order of their names.
NodesOutOfOrder ==
    /\ LastCallOf("DeploymentDiagramGenerator", "generate_xmi") /\ last.result # EmptyStr
    /\ ~InNameOrder(last.result, ElementsOfType(last.result, "Node"))

\* A component document whose Components or Interfaces are not in the order of their
\* names.
ComponentsOutOfOrder ==
    /\ LastCallOf("ComponentDiagramGenerator", "generate_xmi") /\ last.result # EmptyStr
    /\ \/ ~InNameOrder(last.result, ElementsOfType(last.result, "Component"))
       \/ ~InNameOrder(last.result, ElementsOfType(last.result, "Interface"))

\* C28: Cleaning an operation name a second time returns it unchanged: when
\* clean_operation_name is called on the result of the previous call, it returns its
\* argument.
C28_CleanIsIdempotent ==
    [][(last.op = "clean_operation_name" /\ last'.op = "clean_operation_name")
          => (last'.env = <<last.result>> /\ last'.result = last.result)]_vars

\* C28 witness: the second cleaning of a name that the first cleaning left with an HTTP
\* method at its start, followed by the underscore that replaced a space.
C28_Witness ==
    /\ last.op = "clean_operation_name" /\ calls = 2
    /\ last.env = <<last.result>>
    /\ last.result = <<"G", "E", "T", "_", "c">>

\* The Interactions of a unified document in the order of the document, which is that
\* of the traces.
InteractionsInOrder(doc) ==
    SelectSeq([e \in 1..Len(doc) |-> e], LAMBDA e : doc[e].tag = "ownedBehavior")

\* The Messages of an Interaction as <<sending service, receiving service, name>>.
MessageTriples(doc, ends, interaction) ==
    UNION {{<<from, to, AttrOf(doc, m, "name")>> : from \in ends[m][1], to \in ends[m][2]} :
           m \in {m \in DOMAIN ends : doc[m].parent = interaction}}

\* The edges the aggregator records for a trace, under the names of their Messages.
EdgeTriples(trace) ==
    {<<e[1], e[2], extract_simple_operation_name(e[3])>> :
        e \in CallTriples(TraceAggregator(<<trace>>))}

\* C29: In a unified document the Messages of the Interaction of a trace go from P to S
\* under the name of o exactly for the edges P -> S with o that the aggregator records
\* for that trace, also when spans of the trace share a span id.
C29_MessagesAgreeWithAggregator ==
    (LastCallOf("UnifiedXmiGenerator", "generate") /\ last.result # EmptyStr)
        => LET ends == MessageEnds(last.result)
               interactions == InteractionsInOrder(last.result)
           IN /\ Len(interactions) = Len(last.traces)
              /\ \A k \in 1..Len(interactions) :
                    MessageTriples(last.result, ends, interactions[k])
                        = EdgeTriples(last.traces[k])

\* No two spans of the trace share a span id.
DistinctSpanIds(trace) ==
    \A i, j \in 1..Len(trace.spans) : trace.spans[i].span_id = trace.spans[j].span_id => i = j

\* The same for the traces whose spans have different ids.
MessagesAgreeForDistinctIds ==
    (LastCallOf("UnifiedXmiGenerator", "generate") /\ last.result # EmptyStr)
        => LET ends == MessageEnds(last.result)
               interactions == InteractionsInOrder(last.result)
           IN /\ Len(interactions) = Len(last.traces)
              /\ \A k \in 1..Len(interactions) :
                    DistinctSpanIds(last.traces[k])
                        => MessageTriples(last.result, ends, interactions[k])
                              = EdgeTriples(last.traces[k])

\* A Message from cart to db in the document of the trace whose only edge is from api
\* to db.
MessageFromLaterSpan ==
    /\ LastCallOf("UnifiedXmiGenerator", "generate") /\ last.result # EmptyStr
    /\ last.traces = <<SharedIdTrace>>
    /\ CallTriples(TraceAggregator(last.traces)) = {<<api, db, opY>>}
    /\ \E m \in Messages(last.result) : MessageEnds(last.result)[m] = <<{cart}, {db}>>

\* The Nodes of a deployment document on which the Artifact of the service is deployed.
NodesOfService(doc, service) ==
    {n \in ElementsOfType(doc, "Node") :
        \E d \in ElementsOfType(doc, "Deployment") : \E a \in ElementsOfType(doc, "Artifact") :
            /\ AttrOf(doc, a, "name") = service
            /\ AttrOf(doc, d, "deployedArtifact") = AttrOf(doc, a, "xmi:id")
            /\ AttrOf(doc, d, "location") = AttrOf(doc, n, "xmi:id")}

\* The unordered pairs of distinct Nodes with a dependency between a service on the one
\* and a service on the other.
LinkedNodes(doc, aggregator) ==
    {pair \in UNION {{{n1, n2} : n1 \in NodesOfService(doc, dep[1]),
                                 n2 \in NodesOfService(doc, dep[2])} :
                     dep \in DependencyPairs(aggregator)} :
        Cardinality(pair) = 2}

\* The CommunicationPaths of a document whose ends are typed by the Nodes of the set.
PathsBetween(doc, nodes) ==
    {p \in ElementsOfType(doc, "CommunicationPath") :
        {AttrOf(doc, e, "type") : e \in {e \in 1..Len(doc) : doc[e].parent = p /\ doc[e].tag = "ownedEnd"}}
            = {AttrOf(doc, n, "xmi:id") : n \in nodes}}

\* The last call built a deployment document.
DeploymentBuilt ==
    LastCallOf("DeploymentDiagramGenerator", "generate_xmi") /\ last.result # EmptyStr

\* C30: The deployment view has exactly one CommunicationPath for each unordered pair
\* of distinct Nodes with a dependency between their services, its two ends typed by
\* the two Nodes, and no other CommunicationPath.
C30_OnePathPerNodePair ==
    DeploymentBuilt
        => LET linked == LinkedNodes(last.result, TraceAggregator(last.traces))
           IN /\ \A pair \in linked : Cardinality(PathsBetween(last.result, pair)) = 1
              /\ Cardinality(ElementsOfType(last.result, "CommunicationPath"))
                    = Cardinality(linked)

\* The same for the traces other than the one with the nodes a, b_to_a and a_to_b.
OnePathPerNodePairElsewhere ==
    (DeploymentBuilt /\ last.traces # <<KeyedNodesTrace>>)
        => LET linked == LinkedNodes(last.result, TraceAggregator(last.traces))
           IN /\ \A pair \in linked : Cardinality(PathsBetween(last.result, pair)) = 1
              /\ Cardinality(ElementsOfType(last.result, "CommunicationPath"))
                    = Cardinality(linked)

\* Two Interfaces of one component document list the same two operations in opposite
\* orders: each callee's set of provided operations is iterated in an order of its own.
InterfacesInOppositeOrders ==
    /\ LastCallOf("ComponentDiagramGenerator", "generate_xmi") /\ last.result # EmptyStr
    /\ \E i, j \in ElementsOfType(last.result, "Interface") :
       \E a, b \in ChildrenOf(last.result, i, "ownedOperation") :
       \E c, d \in ChildrenOf(last.result, j, "ownedOperation") :
          /\ i # j /\ a < b /\ c < d
          /\ AttrOf(last.result, a, "name") # AttrOf(last.result, b, "name")
          /\ AttrOf(last.result, a, "name") = AttrOf(last.result, d, "name")
          /\ AttrOf(last.result, b, "name") = AttrOf(last.result, c, "name")

\* The CommunicationPaths of two calling nodes reach the same two called nodes in opposite
\* orders: each set of service_dependencies is iterated in an order of its own.
PathsInOppositeOrders ==
    /\ DeploymentBuilt
    /\ \E p1, p2, p3, p4 \in ElementsOfType(last.result, "CommunicationPath") :
       \E from1, from2, to1, to2 \in NodeNames(last.result) :
          /\ p1 < p2 /\ p3 < p4 /\ from1 # from2 /\ to1 # to2
          /\ AttrOf(last.result, p1, "name") = from1 \o Lit.to \o to1
          /\ AttrOf(last.result, p2, "name") = from1 \o Lit.to \o to2
          /\ AttrOf(last.result, p3, "name") = from2 \o Lit.to \o to2
          /\ AttrOf(last.result, p4, "name") = from2 \o Lit.to \o to1

\* Two linked pairs of Nodes and one CommunicationPath.
TwoPairsOnePath ==
    /\ DeploymentBuilt
    /\ Cardinality(LinkedNodes(last.result, TraceAggregator(last.traces))) = 2
    /\ Cardinality(ElementsOfType(last.result, "CommunicationPath")) = 1

\* A deployment document with a CommunicationPath between two Nodes.
PathBuilt ==
    /\ DeploymentBuilt /\ last.traces # <<KeyedNodesTrace>>
    /\ ElementsOfType(last.result, "CommunicationPath") # {}

=============================================================================
